---- MODULE Spec2Model ----
(***************************************************************************)
(* SimpleLight emulator storage back ends.                                 *)
(*                                                                         *)
(*   Sector Store      src/src/fakedriver/sd_card.c                        *)
(*   Virtual Filesystem src/unnamed/part_002 (fake FatFs file API)         *)
(*                                                                         *)
(* A sector payload (512 bytes, always copied as a whole by memcpy) is one *)
(* value; 0 is the all-zero sector.  Pointers into the node pool are pool  *)
(* indices, NULL is -1.                                                    *)
(***************************************************************************)
EXTENDS Integers, Sequences, FiniteSets, TLC

\* ------------------------------------------------------------------------
\* Sector Store: constants and inputs
\* ------------------------------------------------------------------------

SECTOR_SIZE == 512

\* u16 arithmetic: overlay_sector_id[] and the (u16)sector casts
U16 == 65536

\* 0xFFFF: the free-slot marker of overlay_sector_id and the "none" index
FREE_ID == U16 - 1

\* Overlay capacity (256 in the source), scaled
MAX_OVERLAY_SECTORS == 2

\* Largest sector count of one request
MaxCount == 2

\* Requests start at the first sectors or around the 16-bit boundary
LowAddresses == {0}

\* The embedded image: a FAT16/32 image of more than 65535 sectors, with a
\* trailing partial sector
ImageSectors == U16 + 1

disk_bin_size == ImageSectors * SECTOR_SIZE + 100

Addresses == LowAddresses \cup ((U16 - 1) .. ImageSectors)

Counts == 0 .. MaxCount

\* The sectors of the image a request of the model can touch
Window ==
  { s \in { a + i : a \in Addresses, i \in 0 .. (MaxCount - 1) } :
      s < ImageSectors }

\* Payloads a caller writes (0 is the all-zero sector of a fresh slot)
Payloads == {1, 2}

\* Content of the embedded image, sector by sector
ImagePayload(s) == 10 + (s % 3)

\* Caller buffers: a NULL pointer or count sector payloads
NullBuf == [null |-> TRUE, data |-> << >>]

Buf(d) == [null |-> FALSE, data |-> d]

\* The source buffers of n sectors: one payload throughout, or the payloads
\* in turn
SourcesOf(n) ==
  { [i \in 1 .. n |-> x] : x \in Payloads }
    \cup { [i \in 1 .. n |-> 1 + (i % 2)] }

\* What a destination buffer holds before a read
Poison == 99

DstBuf(count) == Buf([i \in 1 .. count |-> Poison])

VARIABLES
  sd,        \* the statics of sd_card.c
  disk_bin,  \* the embedded image (const data linked into the binary)
  shadow,    \* reference content: sector -> payload last accepted by a write
  sd_last,   \* the last request and what it returned
  vfs,       \* the statics of the virtual filesystem and its node pool
  fil,       \* the callers' FIL objects
  fs_last,   \* the last file-API call and what it returned
  steps,     \* the number of file-API calls made
  fault,     \* "none", or the memory fault the calls have run into
  c5,        \* progress of a create / write / read-back sequence
  dirs,      \* the callers' DIR objects
  c14,       \* progress of a directory iteration session
  closed,    \* the FIL objects f_close was called on since their last open
  heap       \* the number of content buffers malloc'ed and not yet freed

sd_vars == << sd, disk_bin, shadow, sd_last >>

fs_vars == << vfs, fil, fs_last, steps, fault, c5, dirs, c14, closed, heap >>

vars ==
  << sd, disk_bin, shadow, sd_last, vfs, fil, fs_last, steps, fault, c5, dirs,
     c14, closed, heap >>

\* ------------------------------------------------------------------------
\* Sector Store: the code
\* ------------------------------------------------------------------------

OverlaySlots == 0 .. (MAX_OVERLAY_SECTORS - 1)

\* overlay_init: every slot free, count 0 (payloads are left as they are)
overlay_init(s) ==
  [s EXCEPT !.overlay_sector_id = [i \in OverlaySlots |-> FREE_ID],
            !.overlay_used_count = 0]

\* overlay_find: the first slot whose 16-bit id equals (u16)sector, else 0xFFFF
overlay_find(s, sector) ==
  LET hits == { i \in OverlaySlots : s.overlay_sector_id[i] = sector % U16 }
  IN  IF hits = {} THEN FREE_ID
      ELSE CHOOSE i \in hits : \A j \in hits : i <= j

\* The overlay_get_or_create variant that takes a free slot without looking
\* the sector up first
overlay_get_or_create_NoFind(s, sector) ==
  LET free == { i \in OverlaySlots : s.overlay_sector_id[i] = FREE_ID }
  IN  IF free = {} THEN [idx |-> overlay_find(s, sector), s |-> s]
      ELSE LET n == CHOOSE i \in free : \A j \in free : i <= j
           IN  [idx |-> n,
                s |-> [s EXCEPT
                         !.overlay_sector_id[n] = sector % U16,
                         !.overlay_sector_data[n] = disk_bin[sector],
                         !.overlay_used_count = (@ + 1) % U16]]

\* overlay_get_or_create: [idx, s]; a new slot is seeded from the base image
overlay_get_or_create(s, sector) ==
  LET idx == overlay_find(s, sector)
      free == { i \in OverlaySlots : s.overlay_sector_id[i] = FREE_ID }
  IN  IF idx # FREE_ID THEN [idx |-> idx, s |-> s]
      ELSE IF free = {} THEN [idx |-> FREE_ID, s |-> s]
      ELSE LET n == CHOOSE i \in free : \A j \in free : i <= j
           IN  [idx |-> n,
                s |-> [s EXCEPT
                         !.overlay_sector_id[n] = sector % U16,
                         !.overlay_sector_data[n] = disk_bin[sector],
                         !.overlay_used_count = (@ + 1) % U16]]

\* The ensure_sd_open variant that sets the store up again at every call
ensure_sd_open_Again(s, malloc_ok) ==
  IF disk_bin_size <= 0 THEN [ok |-> 0, s |-> s]
  ELSE
    LET usable == disk_bin_size - (disk_bin_size % SECTOR_SIZE)
        s1 == [s EXCEPT !.g_img_size = disk_bin_size,
                        !.g_sector_count = usable \div SECTOR_SIZE]
        s2 == IF malloc_ok
              THEN [s1 EXCEPT !.g_img_ram =
                      [null |-> FALSE, mem |-> [x \in Window |-> disk_bin[x]]]]
              ELSE overlay_init([s1 EXCEPT !.g_img_ram =
                      [null |-> TRUE, mem |-> << >>]])
    IN  [ok |-> 1, s |-> [s2 EXCEPT !.g_sd_ready = 1]]

\* ensure_sd_open: [ok, s]; malloc_ok is whether malloc(usable) succeeds
ensure_sd_open(s, malloc_ok) ==
  IF s.g_sd_ready = 1 THEN [ok |-> 1, s |-> s]
  ELSE IF disk_bin_size <= 0 THEN [ok |-> 0, s |-> s]
  ELSE
    LET usable == disk_bin_size - (disk_bin_size % SECTOR_SIZE)
        s1 == [s EXCEPT !.g_img_size = disk_bin_size,
                        !.g_sector_count = usable \div SECTOR_SIZE]
        s2 == IF malloc_ok
              THEN [s1 EXCEPT !.g_img_ram =
                      [null |-> FALSE, mem |-> [x \in Window |-> disk_bin[x]]]]
              ELSE overlay_init([s1 EXCEPT !.g_img_ram =
                      [null |-> TRUE, mem |-> << >>]])
    IN  [ok |-> 1, s |-> [s2 EXCEPT !.g_sd_ready = 1]]

\* The sector-by-sector loop of Read_SD_sectors (overlay mode)
read_sector(s, sector) ==
  LET idx == overlay_find(s, sector)
  IN  IF idx # FREE_ID THEN s.overlay_sector_data[idx] ELSE disk_bin[sector]

\* The Read_SD_sectors variant without the test of count against 0
Read_SD_sectors_AnyCount(s, ok, address, count, SDbuffer) ==
  IF ok = 0 \/ SDbuffer.null THEN [res |-> "RES_ERROR", buf |-> SDbuffer]
  ELSE IF address >= s.g_sector_count THEN [res |-> "RES_PARERR", buf |-> SDbuffer]
  ELSE IF count > s.g_sector_count - address
       THEN [res |-> "RES_PARERR", buf |-> SDbuffer]
  ELSE IF ~ s.g_img_ram.null
       THEN [res |-> "RES_OK",
             buf |-> Buf([i \in 1 .. count |-> s.g_img_ram.mem[address + i - 1]])]
  ELSE [res |-> "RES_OK",
        buf |-> Buf([i \in 1 .. count |-> read_sector(s, address + i - 1)])]

\* Read_SD_sectors after ensure_sd_open: [res, buf]
Read_SD_sectors(s, ok, address, count, SDbuffer) ==
  IF ok = 0 \/ SDbuffer.null THEN [res |-> "RES_ERROR", buf |-> SDbuffer]
  ELSE IF count = 0 THEN [res |-> "RES_PARERR", buf |-> SDbuffer]
  ELSE IF address >= s.g_sector_count THEN [res |-> "RES_PARERR", buf |-> SDbuffer]
  ELSE IF count > s.g_sector_count - address
       THEN [res |-> "RES_PARERR", buf |-> SDbuffer]
  ELSE IF ~ s.g_img_ram.null
       THEN [res |-> "RES_OK",
             buf |-> Buf([i \in 1 .. count |-> s.g_img_ram.mem[address + i - 1]])]
  ELSE [res |-> "RES_OK",
        buf |-> Buf([i \in 1 .. count |-> read_sector(s, address + i - 1)])]

\* The sector-by-sector loop of Write_SD_sectors (overlay mode), from index i:
\* [res, s, done] where done is the number of sectors copied
RECURSIVE write_loop(_, _, _, _, _)
write_loop(s, address, count, src, i) ==
  IF i >= count THEN [res |-> "RES_OK", s |-> s, done |-> i]
  ELSE LET g == overlay_get_or_create(s, address + i)
       IN  IF g.idx = FREE_ID THEN [res |-> "RES_ERROR", s |-> g.s, done |-> i]
           ELSE write_loop(
                  [g.s EXCEPT !.overlay_sector_data[g.idx] = src[i + 1]],
                  address, count, src, i + 1)

\* (mutant) Write_SD_sectors without the check of count against the sectors
\* that remain: the part of the range inside the image is written
Write_SD_sectors_NoEndCheck(s, ok, address, count, SDbuffer) ==
  IF ok = 0 \/ SDbuffer.null THEN [res |-> "RES_ERROR", s |-> s, done |-> 0]
  ELSE IF count = 0 THEN [res |-> "RES_PARERR", s |-> s, done |-> 0]
  ELSE IF address >= s.g_sector_count THEN [res |-> "RES_PARERR", s |-> s, done |-> 0]
  ELSE LET n == IF count > s.g_sector_count - address
                THEN s.g_sector_count - address ELSE count
       IN  IF ~ s.g_img_ram.null
           THEN [res |-> "RES_OK",
                 s |-> [s EXCEPT !.g_img_ram.mem =
                          [x \in Window |->
                             IF address <= x /\ x < address + n
                             THEN SDbuffer.data[x - address + 1]
                             ELSE s.g_img_ram.mem[x]]],
                 done |-> n]
           ELSE write_loop(s, address, n, SDbuffer.data, 0)

\* Write_SD_sectors after ensure_sd_open: [res, s, done]
Write_SD_sectors(s, ok, address, count, SDbuffer) ==
  IF ok = 0 \/ SDbuffer.null THEN [res |-> "RES_ERROR", s |-> s, done |-> 0]
  ELSE IF count = 0 THEN [res |-> "RES_PARERR", s |-> s, done |-> 0]
  ELSE IF address >= s.g_sector_count THEN [res |-> "RES_PARERR", s |-> s, done |-> 0]
  ELSE IF count > s.g_sector_count - address
       THEN [res |-> "RES_PARERR", s |-> s, done |-> 0]
  ELSE IF ~ s.g_img_ram.null
       THEN [res |-> "RES_OK",
             s |-> [s EXCEPT !.g_img_ram.mem =
                      [x \in Window |->
                         IF address <= x /\ x < address + count
                         THEN SDbuffer.data[x - address + 1]
                         ELSE s.g_img_ram.mem[x]]],
             done |-> count]
  ELSE write_loop(s, address, count, SDbuffer.data, 0)

\* Reference store: the sectors of [address, address + count) accepted in
\* order, a sector being accepted when it already has an entry or a slot is
\* still free (overlay mode); every sector is accepted in full-copy mode
RECURSIVE shadow_write(_, _, _, _, _, _)
shadow_write(sh, bounded, address, count, src, i) ==
  IF i >= count THEN sh
  ELSE LET sec == address + i
       IN  IF bounded /\ sec \notin DOMAIN sh
              /\ Cardinality(DOMAIN sh) >= MAX_OVERLAY_SECTORS
           THEN sh
           ELSE shadow_write(
                  [x \in (DOMAIN sh) \cup {sec} |->
                     IF x = sec THEN src[i + 1] ELSE sh[x]],
                  bounded, address, count, src, i + 1)

\* ------------------------------------------------------------------------
\* Sector Store: state machine
\* ------------------------------------------------------------------------

SdInit ==
  /\ sd = [g_sd_ready |-> 0,
           g_img_ram |-> [null |-> TRUE, mem |-> << >>],
           g_img_size |-> 0,
           g_sector_count |-> 0,
           overlay_sector_id |-> [i \in OverlaySlots |-> 0],
           overlay_sector_data |-> [i \in OverlaySlots |-> 0],
           overlay_used_count |-> 0]
  /\ disk_bin = [s \in Window |-> ImagePayload(s)]
  /\ shadow = << >>
  /\ sd_last = [op |-> "none"]

\* A caller reads count sectors at address into a buffer
SdRead(address, count, SDbuffer, malloc_ok) ==
  \E e \in {ensure_sd_open(sd, malloc_ok)} :
    \E r \in {Read_SD_sectors(e.s, e.ok, address, count, SDbuffer)} :
      /\ sd' = e.s
      /\ sd_last' = [op |-> "read", address |-> address, count |-> count,
                     arg |-> SDbuffer, res |-> r.res, buf |-> r.buf, done |-> 0]
      /\ UNCHANGED << disk_bin, shadow >>
      /\ UNCHANGED fs_vars

\* The write that stores the payloads of an accepted request in the embedded
\* image itself
SdWrite_ThroughImage(address, count, SDbuffer, malloc_ok) ==
  \E e \in {ensure_sd_open(sd, malloc_ok)} :
    \E w \in {Write_SD_sectors(e.s, e.ok, address, count, SDbuffer)} :
      /\ sd' = e.s
      /\ shadow' = shadow
      /\ sd_last' = [op |-> "write", address |-> address, count |-> count,
                     arg |-> SDbuffer, res |-> w.res, buf |-> SDbuffer,
                     done |-> w.done]
      /\ disk_bin' = [x \in Window |->
                        IF address <= x /\ x < address + w.done
                        THEN SDbuffer.data[x - address + 1] ELSE disk_bin[x]]
      /\ UNCHANGED fs_vars

\* A caller writes count sectors at address from a buffer
SdWrite(address, count, SDbuffer, malloc_ok) ==
  \E e \in {ensure_sd_open(sd, malloc_ok)} :
    \E w \in {Write_SD_sectors(e.s, e.ok, address, count, SDbuffer)} :
      /\ sd' = w.s
      /\ shadow' = IF /\ e.ok = 1 /\ ~ SDbuffer.null /\ count >= 1
                      /\ address + count <= e.s.g_sector_count
                   THEN shadow_write(shadow, e.s.g_img_ram.null, address, count,
                                     SDbuffer.data, 0)
                   ELSE shadow
      /\ sd_last' = [op |-> "write", address |-> address, count |-> count,
                     arg |-> SDbuffer, res |-> w.res, buf |-> SDbuffer,
                     done |-> w.done]
      /\ UNCHANGED disk_bin
      /\ UNCHANGED fs_vars

\* malloc can fail or succeed, once: at the first request
MallocOutcomes == IF sd.g_sd_ready = 1 THEN {TRUE} ELSE BOOLEAN

\* A NULL buffer is tried with empty and with single-sector requests
NullBufs(c) == IF c <= 1 THEN {NullBuf} ELSE {}

SdNext ==
  \/ \E a \in Addresses, c \in Counts, m \in MallocOutcomes :
       \E b \in {DstBuf(c)} \cup NullBufs(c) : SdRead(a, c, b, m)
  \/ \E a \in Addresses, c \in Counts, m \in MallocOutcomes :
       \E b \in NullBufs(c) \cup { Buf(d) : d \in SourcesOf(c) } :
         SdWrite(a, c, b, m)

\* ------------------------------------------------------------------------
\* Sector Store without overlay (src/unnamed/part_000): the code
\* ------------------------------------------------------------------------

\* ensure_sd_open: [ok, s]; without the full copy the store stays on the
\* embedded image
P0_ensure_sd_open(s, malloc_ok) ==
  IF s.g_sd_ready = 1 THEN [ok |-> 1, s |-> s]
  ELSE IF disk_bin_size <= 0 THEN [ok |-> 0, s |-> s]
  ELSE
    LET usable == disk_bin_size - (disk_bin_size % SECTOR_SIZE)
        s1 == [s EXCEPT !.g_img_size = disk_bin_size,
                        !.g_sector_count = usable \div SECTOR_SIZE]
        s2 == IF malloc_ok
              THEN [s1 EXCEPT !.g_img_ram =
                      [null |-> FALSE, mem |-> [x \in Window |-> disk_bin[x]]]]
              ELSE [s1 EXCEPT !.g_img_ram = [null |-> TRUE, mem |-> << >>]]
    IN  [ok |-> 1, s |-> [s2 EXCEPT !.g_sd_ready = 1]]

\* Read_SD_sectors after ensure_sd_open: [res, buf]; base is the mutable
\* copy if there is one, else the embedded image
P0_Read_SD_sectors(s, ok, address, count, SDbuffer) ==
  IF ok = 0 \/ SDbuffer.null THEN [res |-> "RES_ERROR", buf |-> SDbuffer]
  ELSE IF count = 0 THEN [res |-> "RES_PARERR", buf |-> SDbuffer]
  ELSE IF address >= s.g_sector_count THEN [res |-> "RES_PARERR", buf |-> SDbuffer]
  ELSE IF count > s.g_sector_count - address
       THEN [res |-> "RES_PARERR", buf |-> SDbuffer]
  ELSE [res |-> "RES_OK",
        buf |-> Buf([i \in 1 .. count |->
                       IF ~ s.g_img_ram.null THEN s.g_img_ram.mem[address + i - 1]
                       ELSE disk_bin[address + i - 1]])]

\* The Write_SD_sectors variant that reports an error when there is no
\* mutable copy to write to
P0_Write_SD_sectors_Refuses(s, ok, address, count, SDbuffer) ==
  IF ok = 0 \/ SDbuffer.null THEN [res |-> "RES_ERROR", s |-> s]
  ELSE IF count = 0 THEN [res |-> "RES_PARERR", s |-> s]
  ELSE IF address >= s.g_sector_count THEN [res |-> "RES_PARERR", s |-> s]
  ELSE IF count > s.g_sector_count - address THEN [res |-> "RES_PARERR", s |-> s]
  ELSE IF ~ s.g_img_ram.null
       THEN [res |-> "RES_OK",
             s |-> [s EXCEPT !.g_img_ram.mem =
                      [x \in Window |->
                         IF address <= x /\ x < address + count
                         THEN SDbuffer.data[x - address + 1]
                         ELSE s.g_img_ram.mem[x]]]]
  ELSE [res |-> "RES_ERROR", s |-> s]

\* Write_SD_sectors after ensure_sd_open: [res, s]; without a mutable copy
\* the data is dropped and the call still reports success
P0_Write_SD_sectors(s, ok, address, count, SDbuffer) ==
  IF ok = 0 \/ SDbuffer.null THEN [res |-> "RES_ERROR", s |-> s]
  ELSE IF count = 0 THEN [res |-> "RES_PARERR", s |-> s]
  ELSE IF address >= s.g_sector_count THEN [res |-> "RES_PARERR", s |-> s]
  ELSE IF count > s.g_sector_count - address THEN [res |-> "RES_PARERR", s |-> s]
  ELSE IF ~ s.g_img_ram.null
       THEN [res |-> "RES_OK",
             s |-> [s EXCEPT !.g_img_ram.mem =
                      [x \in Window |->
                         IF address <= x /\ x < address + count
                         THEN SDbuffer.data[x - address + 1]
                         ELSE s.g_img_ram.mem[x]]]]
  ELSE [res |-> "RES_OK", s |-> s]

\* ------------------------------------------------------------------------
\* Sector Store without overlay: state machine
\* ------------------------------------------------------------------------

\* A caller reads count sectors at address into a buffer
P0Read(address, count, SDbuffer, malloc_ok) ==
  \E e \in {P0_ensure_sd_open(sd, malloc_ok)} :
    \E r \in {P0_Read_SD_sectors(e.s, e.ok, address, count, SDbuffer)} :
      /\ sd' = e.s
      /\ sd_last' = [op |-> "read", address |-> address, count |-> count,
                     arg |-> SDbuffer, res |-> r.res, buf |-> r.buf, done |-> 0]
      /\ UNCHANGED << disk_bin, shadow >>
      /\ UNCHANGED fs_vars

\* A caller writes count sectors at address from a buffer; shadow keeps what
\* the caller was told is stored
P0Write(address, count, SDbuffer, malloc_ok) ==
  \E e \in {P0_ensure_sd_open(sd, malloc_ok)} :
    \E w \in {P0_Write_SD_sectors(e.s, e.ok, address, count, SDbuffer)} :
      /\ sd' = w.s
      /\ shadow' = IF w.res = "RES_OK"
                   THEN shadow_write(shadow, FALSE, address, count,
                                     SDbuffer.data, 0)
                   ELSE shadow
      /\ sd_last' = [op |-> "write", address |-> address, count |-> count,
                     arg |-> SDbuffer, res |-> w.res, buf |-> SDbuffer,
                     done |-> IF w.res = "RES_OK" THEN count ELSE 0]
      /\ UNCHANGED disk_bin
      /\ UNCHANGED fs_vars

P0Next ==
  \/ \E a \in Addresses, c \in Counts, m \in MallocOutcomes :
       \E b \in {DstBuf(c)} \cup NullBufs(c) : P0Read(a, c, b, m)
  \/ \E a \in Addresses, c \in Counts, m \in MallocOutcomes :
       \E b \in NullBufs(c) \cup { Buf(d) : d \in SourcesOf(c) } :
         P0Write(a, c, b, m)

\* ------------------------------------------------------------------------
\* Virtual Filesystem: constants and inputs
\* ------------------------------------------------------------------------

NULL == -1

\* FatFs attribute bits: AM_DIR 0x10, AM_ARC 0x20
AM_DIR == 16

AM_ARC == 32

\* Node pool capacity (64 in the source), scaled: the default layout takes 12
FS_MAX_NODES == 15

\* fs->csize set by f_mount: sectors per cluster
csize == 4

\* The end-of-chain value Get_NextCluster returns (0xFFFF)
END_OF_CHAIN == 65535

\* A path is the sequence of its '/' separators and its segment names.
\* strcasecmp compares names through Fold
Fold(name) ==
  CASE name = "a" -> "A"
    [] name = "b" -> "B"
    [] name = "c.txt" -> "C.TXT"
    [] name = "C.txt" -> "C.TXT"
    [] name = "Readme.txt" -> "README.TXT"
    [] name = "readme.txt" -> "README.TXT"
    [] OTHER -> name

IsDir(attr) == (attr \div AM_DIR) % 2 = 1

NullData == [null |-> TRUE, bytes |-> << >>]

\* memset(n, 0, sizeof(FsNode))
ZeroNode ==
  [name |-> "", attr |-> 0, parent |-> NULL, firstChild |-> NULL,
   nextSibling |-> NULL, data |-> NullData, size |-> 0, startCluster |-> 0]

NodeSlots == 0 .. (FS_MAX_NODES - 1)

\* ------------------------------------------------------------------------
\* Virtual Filesystem: the node tree
\* ------------------------------------------------------------------------

\* fs_alloc_node: [n, fs]; a used slot with an empty name and attr 0 is
\* reused, else the next unused slot is taken, else NULL
fs_alloc_node(fs) ==
  LET reuse == { i \in 0 .. (fs.g_node_used - 1) :
                   fs.g_node_pool[i].name = "" /\ fs.g_node_pool[i].attr = 0 }
  IN  IF reuse # {}
      THEN LET n == CHOOSE i \in reuse : \A j \in reuse : i <= j
           IN  [n |-> n, fs |-> [fs EXCEPT !.g_node_pool[n] = ZeroNode]]
      ELSE IF fs.g_node_used >= FS_MAX_NODES THEN [n |-> NULL, fs |-> fs]
      ELSE [n |-> fs.g_node_used,
            fs |-> [fs EXCEPT !.g_node_pool[fs.g_node_used] = ZeroNode,
                              !.g_node_used = @ + 1]]

\* fs_new_node: [n, fs]
fs_new_node(fs, name, attr) ==
  LET a == fs_alloc_node(fs)
  IN  IF a.n = NULL THEN a
      ELSE [n |-> a.n,
            fs |-> [a.fs EXCEPT !.g_node_pool[a.n] =
                      [ZeroNode EXCEPT !.name = name, !.attr = attr,
                                       !.startCluster = 2]]]

\* The last node of a sibling list (the while loop of fs_add_child)
RECURSIVE last_sibling(_, _, _)
last_sibling(pool, it, fuel) ==
  IF fuel = 0 \/ pool[it].nextSibling = NULL THEN it
  ELSE last_sibling(pool, pool[it].nextSibling, fuel - 1)

\* fs_add_child: the child is appended to the directory's child list
fs_add_child(fs, dir, child) ==
  IF dir = NULL \/ child = NULL THEN fs
  ELSE LET p1 == [fs.g_node_pool EXCEPT ![child].parent = dir,
                                        ![child].nextSibling = NULL]
       IN  IF p1[dir].firstChild = NULL
           THEN [fs EXCEPT !.g_node_pool = [p1 EXCEPT ![dir].firstChild = child]]
           ELSE LET it == last_sibling(p1, p1[dir].firstChild, FS_MAX_NODES)
                IN  [fs EXCEPT !.g_node_pool = [p1 EXCEPT ![it].nextSibling = child]]

\* The sibling list from node it on, in order
RECURSIVE sibling_list(_, _, _)
sibling_list(pool, it, fuel) ==
  IF it = NULL \/ fuel = 0 THEN << >>
  ELSE << it >> \o sibling_list(pool, pool[it].nextSibling, fuel - 1)

\* fs_find_child: the first child whose name equals name ignoring case
fs_find_child(fs, dir, name) ==
  IF dir = NULL THEN NULL
  ELSE IF ~ IsDir(fs.g_node_pool[dir].attr) THEN NULL
  ELSE LET kids == sibling_list(fs.g_node_pool, fs.g_node_pool[dir].firstChild,
                                FS_MAX_NODES)
           hits == { i \in 1 .. Len(kids) :
                       Fold(fs.g_node_pool[kids[i]].name) = Fold(name) }
       IN  IF hits = {} THEN NULL
           ELSE kids[CHOOSE i \in hits : \A j \in hits : i <= j]

\* Where a walk starts: the root for an absolute path, else the current
\* directory (the root when there is none)
walk_start(fs, path) ==
  IF path[1] = "/" THEN fs.g_root
  ELSE IF fs.g_cwd # NULL THEN fs.g_cwd ELSE fs.g_root

\* The segment loop of fs_resolve from position p at node cur
RECURSIVE resolve_loop(_, _, _, _)
resolve_loop(fs, path, p, cur) ==
  IF p > Len(path) THEN cur
  ELSE IF path[p] = "/" THEN resolve_loop(fs, path, p + 1, cur)
  ELSE LET seg == path[p]
           nxt == IF seg = "." THEN cur
                  ELSE IF seg = ".."
                       THEN IF fs.g_node_pool[cur].parent # NULL
                            THEN fs.g_node_pool[cur].parent ELSE cur
                       ELSE fs_find_child(fs, cur, seg)
           q == IF p + 1 <= Len(path) /\ path[p + 1] = "/" THEN p + 2 ELSE p + 1
       IN  IF nxt = NULL THEN NULL ELSE resolve_loop(fs, path, q, nxt)

\* fs_resolve: the node a path names, or NULL
fs_resolve(fs, path) ==
  IF fs.g_root = NULL THEN NULL
  ELSE IF path = << >> THEN (IF fs.g_cwd # NULL THEN fs.g_cwd ELSE fs.g_root)
  ELSE resolve_loop(fs, path, IF path[1] = "/" THEN 2 ELSE 1, walk_start(fs, path))

\* The segment loop of fs_ensure_dir: [node, fs, crash]; a missing segment is
\* created as a directory under cur, whatever cur is; cur is NULL once the
\* pool is exhausted, and ".." then dereferences it
RECURSIVE ensure_loop(_, _, _, _)
ensure_loop(fs, path, p, cur) ==
  IF p > Len(path) THEN [node |-> cur, fs |-> fs, crash |-> FALSE]
  ELSE IF path[p] = "/" THEN ensure_loop(fs, path, p + 1, cur)
  ELSE LET seg == path[p]
           q == IF p + 1 <= Len(path) /\ path[p + 1] = "/" THEN p + 2 ELSE p + 1
       IN  IF seg = "." THEN ensure_loop(fs, path, q, cur)
           ELSE IF seg = ".."
                THEN IF cur = NULL THEN [node |-> NULL, fs |-> fs, crash |-> TRUE]
                     ELSE ensure_loop(fs, path, q,
                            IF fs.g_node_pool[cur].parent # NULL
                            THEN fs.g_node_pool[cur].parent ELSE cur)
           ELSE LET nxt == fs_find_child(fs, cur, seg)
                IN  IF nxt # NULL THEN ensure_loop(fs, path, q, nxt)
                    ELSE LET c == fs_new_node(fs, seg, AM_DIR)
                         IN  ensure_loop(fs_add_child(c.fs, cur, c.n), path, q, c.n)

\* fs_ensure_dir: [node, fs, crash]
fs_ensure_dir(fs, path) ==
  IF fs.g_root = NULL THEN [node |-> NULL, fs |-> fs, crash |-> FALSE]
  ELSE IF path = << >> THEN [node |-> fs.g_root, fs |-> fs, crash |-> FALSE]
  ELSE ensure_loop(fs, path, IF path[1] = "/" THEN 2 ELSE 1, walk_start(fs, path))

\* Cluster size in bytes: g_fs->csize * 512
clusterSizeBytes == csize * 512

\* The number of clusters a size spans (at least one)
cluster_count(size) ==
  LET ncl == (size + clusterSizeBytes - 1) \div clusterSizeBytes
  IN  IF ncl = 0 THEN 1 ELSE ncl

\* The fs_assign_clusters variant that leaves the counter where it is
fs_assign_clusters_NoAdvance(fs, f) ==
  IF f = NULL \/ IsDir(fs.g_node_pool[f].attr) THEN fs
  ELSE [fs EXCEPT !.g_node_pool[f].startCluster = fs.g_nextCluster]

\* fs_assign_clusters: the file takes the next clusters of the counter
fs_assign_clusters(fs, f) ==
  IF f = NULL \/ IsDir(fs.g_node_pool[f].attr) THEN fs
  ELSE [fs EXCEPT !.g_node_pool[f].startCluster = fs.g_nextCluster,
                  !.g_nextCluster = @ + cluster_count(fs.g_node_pool[f].size)]

\* A directory node appended under parent: [n, fs]
populate_dir(fs, parent, name) ==
  LET c == fs_new_node(fs, name, AM_DIR)
  IN  [n |-> c.n, fs |-> fs_add_child(c.fs, parent, c.n)]

\* A file node of a given size appended under parent: [n, fs]
populate_file(fs, parent, name, size) ==
  LET c == fs_new_node(fs, name, AM_ARC)
  IN  IF c.n = NULL THEN c
      ELSE [n |-> c.n,
            fs |-> fs_add_child(
                     fs_assign_clusters(
                       [c.fs EXCEPT !.g_node_pool[c.n].size = size], c.n),
                     parent, c.n)]

\* samples[] of fs_populate_default (backed by no data: reads return zeros)
samples ==
  << [name |-> "ALTT.gba", size |-> 8 * 1024 * 1024],
     [name |-> "Metroid.gba", size |-> 16 * 1024 * 1024],
     [name |-> "Sample.gb", size |-> 256 * 1024],
     [name |-> "Readme.txt", size |-> 2048] >>

\* The loop over samples[], which stops at the first failed allocation
RECURSIVE populate_samples(_, _)
populate_samples(fs, i) ==
  IF i > Len(samples) THEN fs
  ELSE LET c == populate_file(fs, fs.g_root, samples[i].name, samples[i].size)
       IN  IF c.n = NULL THEN fs ELSE populate_samples(c.fs, i + 1)

\* The root node made by fs_populate_default out of a new node r
populate_root(r) == [r.fs EXCEPT !.g_root = r.n, !.g_cwd = r.n]

\* PATCH, PLUG and RECENT.TXT under the SYSTEM directory sys = [n, fs]
populate_system(sys) ==
  populate_file(
    populate_dir(populate_dir(sys.fs, sys.n, "PATCH").fs, sys.n, "PLUG").fs,
    sys.n, "RECENT.TXT", 0).fs

\* The GAMES directory games = [n, fs] and its two files, when it could be
\* allocated
populate_games_in(f1, games) ==
  IF games.n = NULL THEN f1
  ELSE populate_file(
         populate_file(fs_add_child(games.fs, f1.g_root, games.n), games.n,
                       "Pokemon.gba", 32 * 1024 * 1024).fs,
         games.n, "MarioKart.gba", 16 * 1024 * 1024).fs

\* The GAMES directory, made after the samples
populate_games(f1) == populate_games_in(f1, fs_new_node(f1, "GAMES", AM_DIR))

\* The default layout from the SYSTEM directory on, under the root of f0
populate_below_root(f0) ==
  populate_games(
    populate_samples(populate_system(populate_dir(f0, f0.g_root, "SYSTEM")), 1))

\* fs_populate_default
fs_populate_default(fs) ==
  populate_below_root(populate_root(fs_new_node(fs, "", AM_DIR)))

\* The f_mount variant that leaves the cluster counter as it is
f_mount_KeepsClusters(fs, fsobj_null) ==
  IF fsobj_null
  THEN [res |-> "FR_OK", fs |-> [fs EXCEPT !.g_mounted = 0, !.g_fs = NULL]]
  ELSE [res |-> "FR_OK",
        fs |-> fs_populate_default(
                 [fs EXCEPT !.g_fs = 1, !.g_mounted = 1, !.g_root = NULL,
                            !.g_cwd = NULL, !.g_node_used = 0,
                            !.g_iter_dir = NULL, !.g_iter_next = NULL])]

\* f_mount: [res, fs]; a NULL filesystem object unmounts
f_mount(fs, fsobj_null) ==
  IF fsobj_null
  THEN [res |-> "FR_OK", fs |-> [fs EXCEPT !.g_mounted = 0, !.g_fs = NULL]]
  ELSE [res |-> "FR_OK",
        fs |-> fs_populate_default(
                 [fs EXCEPT !.g_fs = 1, !.g_mounted = 1, !.g_root = NULL,
                            !.g_cwd = NULL, !.g_nextCluster = 2,
                            !.g_node_used = 0, !.g_iter_dir = NULL,
                            !.g_iter_next = NULL])]

\* ------------------------------------------------------------------------
\* Virtual Filesystem: the file API
\* ------------------------------------------------------------------------

\* memset(fp, 0, sizeof(*fp))
ZeroFil ==
  [flag |-> {}, fptr |-> 0, dir_ptr |-> NULL, sclust |-> 0, objsize |-> 0,
   attr |-> 0, clust |-> 0]

CreateFlags == {"FA_CREATE_ALWAYS", "FA_OPEN_ALWAYS", "FA_CREATE_NEW"}

\* strrchr(path, '/'): the position of the last separator, 0 when none
last_slash(path) ==
  LET s == { i \in 1 .. Len(path) : path[i] = "/" }
  IN  IF s = {} THEN 0 ELSE CHOOSE i \in s : \A j \in s : j <= i

\* The leaf name after the last separator (empty when the path ends with it)
leaf_name(path) ==
  IF last_slash(path) = Len(path) THEN "" ELSE path[Len(path)]

\* The parent path before the last separator, "." when there is none
parent_path(path) ==
  IF last_slash(path) = 0 THEN << "." >>
  ELSE SubSeq(path, 1, last_slash(path) - 1)

\* The FIL of a successful f_open on node
opened_fil(fs, node, mode) ==
  [flag |-> mode, fptr |-> 0, dir_ptr |-> node,
   sclust |-> fs.g_node_pool[node].startCluster,
   objsize |-> fs.g_node_pool[node].size,
   attr |-> fs.g_node_pool[node].attr,
   clust |-> fs.g_node_pool[node].startCluster]

\* The end of the creation branch of f_open, with parent e = [node, fs, crash]
\* and the new node c = [n, fs]
create_node(e, c) ==
  IF c.n = NULL
  THEN [res |-> "FR_INT_ERR", fs |-> c.fs, node |-> NULL, crash |-> FALSE]
  ELSE [res |-> "FR_OK",
        fs |-> fs_add_child(fs_assign_clusters(c.fs, c.n), e.node, c.n),
        node |-> c.n, crash |-> FALSE]

\* The creation branch of f_open once fs_ensure_dir returned
\* e = [node, fs, crash]
create_in(e, name, mode) ==
  IF e.crash THEN [res |-> "CRASH", fs |-> e.fs, node |-> NULL, crash |-> TRUE]
  ELSE IF e.node = NULL \/ ~ IsDir(e.fs.g_node_pool[e.node].attr)
       THEN [res |-> "FR_NO_PATH", fs |-> e.fs, node |-> NULL, crash |-> FALSE]
  ELSE IF "FA_CREATE_NEW" \in mode /\ fs_find_child(e.fs, e.node, name) # NULL
       THEN [res |-> "FR_EXIST", fs |-> e.fs, node |-> NULL, crash |-> FALSE]
  ELSE create_node(e, fs_new_node(e.fs, name, AM_ARC))

\* The creation branch of f_open: [res, fs, node, crash]
open_create(fs, path, mode) ==
  create_in(fs_ensure_dir(fs, parent_path(path)), leaf_name(path), mode)

\* The end of f_open for the node c = [res, fs, node, crash] it found or made
open_node(c, mode) ==
  IF c.res # "FR_OK"
  THEN [res |-> c.res, fs |-> c.fs, fp |-> ZeroFil, crash |-> c.crash]
  ELSE IF IsDir(c.fs.g_node_pool[c.node].attr)
       THEN [res |-> "FR_INVALID_OBJECT", fs |-> c.fs, fp |-> ZeroFil,
             crash |-> FALSE]
  ELSE [res |-> "FR_OK", fs |-> c.fs, fp |-> opened_fil(c.fs, c.node, mode),
        crash |-> FALSE]

\* What f_open does with the node fs_resolve found
open_found(fs, found, path, mode) ==
  open_node(IF found # NULL
            THEN [res |-> "FR_OK", fs |-> fs, node |-> found, crash |-> FALSE]
            ELSE IF mode \cap CreateFlags # {} THEN open_create(fs, path, mode)
            ELSE [res |-> "FR_NO_FILE", fs |-> fs, node |-> NULL,
                  crash |-> FALSE],
            mode)

\* f_open: [res, fs, fp, crash]
f_open(fs, fp, path, mode) ==
  IF fs.g_mounted = 0
  THEN [res |-> "FR_NOT_READY", fs |-> fs, fp |-> fp, crash |-> FALSE]
  ELSE open_found(fs, fs_resolve(fs, path), path, mode)

\* f_close: nothing is done
f_close(fp) == [res |-> "FR_OK", fp |-> fp]

\* f_stat: [res, fno]
f_stat(fs, path) ==
  IF fs.g_mounted = 0 THEN [res |-> "FR_INVALID_PARAMETER"]
  ELSE LET n == fs_resolve(fs, path)
       IN  IF n = NULL THEN [res |-> "FR_NO_FILE"]
           ELSE [res |-> "FR_OK",
                 fname |-> fs.g_node_pool[n].name,
                 fattrib |-> fs.g_node_pool[n].attr,
                 fsize |-> IF IsDir(fs.g_node_pool[n].attr) THEN 0
                           ELSE fs.g_node_pool[n].size]

\* What list_prev yields when the list does not hold the node
ABSENT == -2

\* The node before n in a sibling list starting at it, NULL when n is first,
\* ABSENT when the list does not hold n
RECURSIVE list_prev(_, _, _, _, _)
list_prev(pool, it, n, prev, fuel) ==
  IF it = NULL \/ fuel = 0 THEN ABSENT
  ELSE IF it = n THEN prev
  ELSE list_prev(pool, pool[it].nextSibling, n, it, fuel - 1)

\* The child list of parent without n (n's own links are left as they are)
detach(pool, parent, n) ==
  LET prev == list_prev(pool, pool[parent].firstChild, n, NULL, FS_MAX_NODES)
  IN  IF prev = ABSENT THEN pool
      ELSE IF prev = NULL
           THEN [pool EXCEPT ![parent].firstChild = pool[n].nextSibling]
           ELSE [pool EXCEPT ![prev].nextSibling = pool[n].nextSibling]

\* f_unlink: [res, fs]
f_unlink(fs, path) ==
  LET n == fs_resolve(fs, path)
  IN  IF n = NULL THEN [res |-> "FR_NO_FILE", fs |-> fs]
      ELSE IF n = fs.g_root THEN [res |-> "FR_DENIED", fs |-> fs]
      ELSE IF IsDir(fs.g_node_pool[n].attr) /\ fs.g_node_pool[n].firstChild # NULL
           THEN [res |-> "FR_DENIED", fs |-> fs]
      ELSE LET parent == fs.g_node_pool[n].parent
           IN  IF parent = NULL THEN [res |-> "FR_INT_ERR", fs |-> fs]
               ELSE IF list_prev(fs.g_node_pool, fs.g_node_pool[parent].firstChild,
                                 n, NULL, FS_MAX_NODES) = ABSENT
                    THEN [res |-> "FR_INT_ERR", fs |-> fs]
               ELSE [res |-> "FR_OK",
                     fs |-> [fs EXCEPT !.g_node_pool =
                               [detach(fs.g_node_pool, parent, n)
                                  EXCEPT ![n] = ZeroNode]]]

\* The end of f_rename: node n leaves its parent and is appended, under the
\* new name, to the new parent e = [node, fs, crash]
rename_to(n, e, name) ==
  IF e.crash THEN [res |-> "CRASH", fs |-> e.fs, crash |-> TRUE]
  ELSE IF e.node = NULL \/ ~ IsDir(e.fs.g_node_pool[e.node].attr)
       THEN [res |-> "FR_NO_PATH", fs |-> e.fs, crash |-> FALSE]
  ELSE LET p1 == IF e.fs.g_node_pool[n].parent # NULL
                 THEN detach(e.fs.g_node_pool, e.fs.g_node_pool[n].parent, n)
                 ELSE e.fs.g_node_pool
       IN  [res |-> "FR_OK",
            fs |-> fs_add_child(
                     [e.fs EXCEPT !.g_node_pool =
                        [p1 EXCEPT ![n].name = name, ![n].nextSibling = NULL,
                                   ![n].parent = NULL]],
                     e.node, n),
            crash |-> FALSE]

\* f_rename: [res, fs, crash]
f_rename(fs, path_old, path_new) ==
  IF fs_resolve(fs, path_old) = NULL
  THEN [res |-> "FR_NO_FILE", fs |-> fs, crash |-> FALSE]
  ELSE rename_to(fs_resolve(fs, path_old),
                 IF last_slash(path_new) # 0
                 THEN fs_ensure_dir(fs, SubSeq(path_new, 1,
                                               last_slash(path_new) - 1))
                 ELSE [node |-> fs.g_cwd, fs |-> fs, crash |-> FALSE],
                 leaf_name(path_new))

\* f_mkdir: [res, fs, crash]
f_mkdir(fs, path) ==
  IF fs.g_mounted = 0 THEN [res |-> "FR_NOT_READY", fs |-> fs, crash |-> FALSE]
  ELSE IF fs_resolve(fs, path) # NULL
       THEN [res |-> "FR_EXIST", fs |-> fs, crash |-> FALSE]
  ELSE LET e == fs_ensure_dir(fs, path)
       IN  [res |-> IF e.crash THEN "CRASH"
                    ELSE IF e.node # NULL THEN "FR_OK" ELSE "FR_INT_ERR",
            fs |-> e.fs, crash |-> e.crash]

\* f_chdir: [res, fs]
f_chdir(fs, path) ==
  IF fs.g_mounted = 0 THEN [res |-> "FR_NOT_READY", fs |-> fs]
  ELSE LET n == fs_resolve(fs, path)
       IN  IF n = NULL \/ ~ IsDir(fs.g_node_pool[n].attr)
           THEN [res |-> "FR_NO_PATH", fs |-> fs]
           ELSE [res |-> "FR_OK", fs |-> [fs EXCEPT !.g_cwd = n]]

\* The non-null value f_opendir stores in dp->dir
DIR_OPEN == 1

\* memset(dp, 0, sizeof(*dp))
ZeroDir == [dir |-> NULL]

\* f_opendir with a non-NULL dp: [res, fs, dp]; an empty path names the
\* current directory
f_opendir(fs, dp, path) ==
  IF fs.g_mounted = 0 THEN [res |-> "FR_INVALID_PARAMETER", fs |-> fs, dp |-> dp]
  ELSE LET node == IF path = << >> THEN fs.g_cwd ELSE fs_resolve(fs, path)
       IN  IF node = NULL \/ ~ IsDir(fs.g_node_pool[node].attr)
           THEN [res |-> "FR_NO_PATH", fs |-> fs, dp |-> dp]
           ELSE [res |-> "FR_OK",
                 fs |-> [fs EXCEPT !.g_iter_dir = node,
                                   !.g_iter_next =
                                      fs.g_node_pool[node].firstChild],
                 dp |-> [ZeroDir EXCEPT !.dir = DIR_OPEN]]

\* The f_readdir variant that yields the entry without moving on
f_readdir_Stays(fs, dp, fno_null) ==
  IF fs.g_mounted = 0
  THEN [res |-> "FR_INVALID_PARAMETER", fs |-> fs, filled |-> FALSE]
  ELSE IF dp.dir = NULL
       THEN [res |-> "FR_OK", fs |-> fs, filled |-> ~ fno_null, fname |-> ""]
  ELSE IF fno_null
       THEN [res |-> "FR_OK",
             fs |-> [fs EXCEPT !.g_iter_next =
                        IF fs.g_iter_dir # NULL
                        THEN fs.g_node_pool[fs.g_iter_dir].firstChild
                        ELSE NULL],
             filled |-> FALSE]
  ELSE IF fs.g_iter_next = NULL
       THEN [res |-> "FR_OK", fs |-> fs, filled |-> TRUE, fname |-> ""]
  ELSE [res |-> "FR_OK",
        fs |-> fs,
        filled |-> TRUE,
        fname |-> fs.g_node_pool[fs.g_iter_next].name,
        fattrib |-> fs.g_node_pool[fs.g_iter_next].attr,
        fsize |-> IF IsDir(fs.g_node_pool[fs.g_iter_next].attr) THEN 0
                  ELSE fs.g_node_pool[fs.g_iter_next].size]

\* f_readdir with a non-NULL dp: [res, fs, filled, fname, fattrib, fsize];
\* filled tells whether *fno was written, and only fname is written for the
\* end of the directory; a NULL fno rewinds
f_readdir(fs, dp, fno_null) ==
  IF fs.g_mounted = 0
  THEN [res |-> "FR_INVALID_PARAMETER", fs |-> fs, filled |-> FALSE]
  ELSE IF dp.dir = NULL
       THEN [res |-> "FR_OK", fs |-> fs, filled |-> ~ fno_null, fname |-> ""]
  ELSE IF fno_null
       THEN [res |-> "FR_OK",
             fs |-> [fs EXCEPT !.g_iter_next =
                        IF fs.g_iter_dir # NULL
                        THEN fs.g_node_pool[fs.g_iter_dir].firstChild
                        ELSE NULL],
             filled |-> FALSE]
  ELSE IF fs.g_iter_next = NULL
       THEN [res |-> "FR_OK", fs |-> fs, filled |-> TRUE, fname |-> ""]
  ELSE [res |-> "FR_OK",
        fs |-> [fs EXCEPT !.g_iter_next =
                   fs.g_node_pool[fs.g_iter_next].nextSibling],
        filled |-> TRUE,
        fname |-> fs.g_node_pool[fs.g_iter_next].name,
        fattrib |-> fs.g_node_pool[fs.g_iter_next].attr,
        fsize |-> IF IsDir(fs.g_node_pool[fs.g_iter_next].attr) THEN 0
                  ELSE fs.g_node_pool[fs.g_iter_next].size]

\* f_closedir with a non-NULL dp: [res, fs, dp]
f_closedir(fs, dp) ==
  [res |-> "FR_OK",
   fs |-> [fs EXCEPT !.g_iter_dir = NULL, !.g_iter_next = NULL],
   dp |-> [dp EXCEPT !.dir = NULL]]

\* ------------------------------------------------------------------------
\* Virtual Filesystem: file content
\* ------------------------------------------------------------------------

\* A byte buffer is kept as its runs of equal bytes, [n, v] for n bytes of
\* value v, so that a buffer of a whole cluster stays small.  No run is empty
\* and neighbouring runs differ in value.
Fill(n, v) == IF n <= 0 THEN << >> ELSE << [n |-> n, v |-> v] >>

RECURSIVE RLen(_)
RLen(r) == IF r = << >> THEN 0 ELSE r[1].n + RLen(Tail(r))

\* The first k bytes of r
RECURSIVE RTake(_, _)
RTake(r, k) ==
  IF k <= 0 \/ r = << >> THEN << >>
  ELSE IF r[1].n <= k THEN << r[1] >> \o RTake(Tail(r), k - r[1].n)
  ELSE << [n |-> k, v |-> r[1].v] >>

\* r without its first k bytes
RECURSIVE RDrop(_, _)
RDrop(r, k) ==
  IF k <= 0 \/ r = << >> THEN r
  ELSE IF r[1].n <= k THEN RDrop(Tail(r), k - r[1].n)
  ELSE << [n |-> r[1].n - k, v |-> r[1].v] >> \o Tail(r)

\* a followed by b
RCat(a, b) ==
  IF a = << >> THEN b
  ELSE IF b = << >> THEN a
  ELSE IF a[Len(a)].v = b[1].v
       THEN SubSeq(a, 1, Len(a) - 1)
              \o << [n |-> a[Len(a)].n + b[1].n, v |-> b[1].v] >> \o Tail(b)
       ELSE a \o b

\* The bytes [from, from + k) of r
RSlice(r, from, k) == RTake(RDrop(r, from), k)

\* memcpy(dst + pos, src, n) inside an allocation of RLen(dst) bytes: the
\* part of src that falls beyond the allocation is not kept
RCopyInto(dst, pos, src) ==
  LET room == IF RLen(dst) > pos THEN RLen(dst) - pos ELSE 0
      part == RTake(src, room)
  IN  IF RLen(part) = 0 THEN dst
      ELSE RCat(RCat(RTake(dst, pos), part), RDrop(dst, pos + RLen(part)))

\* r brought to k bytes: cut, or extended by bytes of value v
RResize(r, k, v) ==
  IF RLen(r) >= k THEN RTake(r, k) ELSE RCat(r, Fill(k - RLen(r), v))

\* ------------------------------------------------------------------------
\* Virtual Filesystem: read, write, seek, cluster chain
\* ------------------------------------------------------------------------

Min(a, b) == IF a < b THEN a ELSE b

\* f_read with a non-NULL buffer: [res, fp, br, buf, overrun]; bytes the
\* memcpy takes from beyond the allocation have the value junk
f_read(fs, fp, btr, junk) ==
  IF fs.g_mounted = 0
  THEN [res |-> "FR_INVALID_PARAMETER", fp |-> fp, br |-> 0, buf |-> << >>,
        overrun |-> FALSE]
  ELSE IF fp.dir_ptr = NULL
       THEN [res |-> "FR_INVALID_OBJECT", fp |-> fp, br |-> 0, buf |-> << >>,
             overrun |-> FALSE]
  ELSE LET node == fs.g_node_pool[fp.dir_ptr]
       IN  IF fp.fptr >= node.size
           THEN [res |-> "FR_OK", fp |-> fp, br |-> 0, buf |-> << >>,
                 overrun |-> FALSE]
           ELSE LET tocopy == Min(btr, node.size - fp.fptr)
                    got == IF node.data.null THEN Fill(tocopy, 0)
                           ELSE RResize(RSlice(node.data.bytes, fp.fptr, tocopy),
                                        tocopy, junk)
                IN  [res |-> "FR_OK", fp |-> [fp EXCEPT !.fptr = @ + tocopy],
                     br |-> tocopy, buf |-> got,
                     overrun |-> ~ node.data.null
                                 /\ fp.fptr + tocopy > RLen(node.data.bytes)]

\* fs_file_ensure_capacity: [ok, data, overrun]; a new allocation holds bytes
\* of value junk, and the memset of node->size bytes runs past it when the
\* size is larger than the request
fs_file_ensure_capacity(node, needed, malloc_ok, junk) ==
  IF node.data.null
  THEN IF ~ malloc_ok THEN [ok |-> FALSE, data |-> node.data, overrun |-> FALSE]
       ELSE [ok |-> TRUE,
             data |-> [null |-> FALSE,
                       bytes |-> IF node.size # 0
                                 THEN RCopyInto(Fill(needed, junk), 0,
                                                Fill(node.size, 0))
                                 ELSE Fill(needed, junk)],
             overrun |-> node.size > needed]
  ELSE IF needed <= node.size
       THEN [ok |-> TRUE, data |-> node.data, overrun |-> FALSE]
  ELSE IF ~ malloc_ok THEN [ok |-> FALSE, data |-> node.data, overrun |-> FALSE]
  ELSE [ok |-> TRUE,
        data |-> [null |-> FALSE,
                  bytes |-> RCopyInto(RResize(node.data.bytes, needed, junk),
                                      node.size, Fill(needed - node.size, 0))],
        overrun |-> FALSE]

\* The f_write variant that does not record a grown size
f_write_KeepsSize(fs, fp, buff, malloc_ok, junk) ==
  IF fs.g_mounted = 0
  THEN [res |-> "FR_INVALID_PARAMETER", fs |-> fs, fp |-> fp, bw |-> 0,
        overrun |-> FALSE]
  ELSE IF "FA_WRITE" \notin fp.flag
       THEN [res |-> "FR_DENIED", fs |-> fs, fp |-> fp, bw |-> 0,
             overrun |-> FALSE]
  ELSE IF fp.dir_ptr = NULL
       THEN [res |-> "FR_INVALID_OBJECT", fs |-> fs, fp |-> fp, bw |-> 0,
             overrun |-> FALSE]
  ELSE LET node == fs.g_node_pool[fp.dir_ptr]
           endpos == fp.fptr + RLen(buff)
           cap == fs_file_ensure_capacity(node, endpos, malloc_ok, junk)
       IN  IF ~ cap.ok
           THEN [res |-> "FR_INT_ERR", fs |-> fs, fp |-> fp, bw |-> 0,
                 overrun |-> FALSE]
           ELSE [res |-> "FR_OK",
                 fs |-> [fs EXCEPT !.g_node_pool[fp.dir_ptr].data =
                           [null |-> FALSE,
                            bytes |-> RCopyInto(cap.data.bytes, fp.fptr, buff)]],
                 fp |-> [fp EXCEPT !.fptr = endpos],
                 bw |-> RLen(buff),
                 overrun |-> cap.overrun \/ endpos > RLen(cap.data.bytes)]

\* The part of f_write after its checks: the buffer is made large enough and
\* the bytes are copied at the cursor
write_bytes(fs, fp, buff, malloc_ok, junk) ==
  LET node == fs.g_node_pool[fp.dir_ptr]
      endpos == fp.fptr + RLen(buff)
      cap == fs_file_ensure_capacity(node, endpos, malloc_ok, junk)
      grown == endpos > node.size
  IN  IF ~ cap.ok
      THEN [res |-> "FR_INT_ERR", fs |-> fs, fp |-> fp, bw |-> 0,
            overrun |-> FALSE]
      ELSE [res |-> "FR_OK",
            fs |-> [fs EXCEPT !.g_node_pool[fp.dir_ptr] =
                      [node EXCEPT
                         !.data = [null |-> FALSE,
                                   bytes |-> RCopyInto(cap.data.bytes,
                                                       fp.fptr, buff)],
                         !.size = IF grown THEN endpos ELSE @]],
            fp |-> [fp EXCEPT !.fptr = endpos,
                              !.objsize = IF grown THEN endpos ELSE @],
            bw |-> RLen(buff),
            overrun |-> cap.overrun \/ endpos > RLen(cap.data.bytes)]

\* The f_write variant that does not look at the handle's FA_WRITE flag
f_write_AnyHandle(fs, fp, buff, malloc_ok, junk) ==
  IF fs.g_mounted = 0
  THEN [res |-> "FR_INVALID_PARAMETER", fs |-> fs, fp |-> fp, bw |-> 0,
        overrun |-> FALSE]
  ELSE IF fp.dir_ptr = NULL
       THEN [res |-> "FR_INVALID_OBJECT", fs |-> fs, fp |-> fp, bw |-> 0,
             overrun |-> FALSE]
  ELSE write_bytes(fs, fp, buff, malloc_ok, junk)

\* f_write with a non-NULL buffer: [res, fs, fp, bw, overrun]
f_write(fs, fp, buff, malloc_ok, junk) ==
  IF fs.g_mounted = 0
  THEN [res |-> "FR_INVALID_PARAMETER", fs |-> fs, fp |-> fp, bw |-> 0,
        overrun |-> FALSE]
  ELSE IF "FA_WRITE" \notin fp.flag
       THEN [res |-> "FR_DENIED", fs |-> fs, fp |-> fp, bw |-> 0,
             overrun |-> FALSE]
  ELSE IF fp.dir_ptr = NULL
       THEN [res |-> "FR_INVALID_OBJECT", fs |-> fs, fp |-> fp, bw |-> 0,
             overrun |-> FALSE]
  ELSE write_bytes(fs, fp, buff, malloc_ok, junk)

\* f_lseek: [res, fp]
f_lseek(fs, fp, ofs) ==
  IF fs.g_mounted = 0 THEN [res |-> "FR_INVALID_PARAMETER", fp |-> fp]
  ELSE IF fp.dir_ptr = NULL THEN [res |-> "FR_INVALID_OBJECT", fp |-> fp]
  ELSE LET size == fs.g_node_pool[fp.dir_ptr].size
       IN  [res |-> "FR_OK",
            fp |-> [fp EXCEPT !.fptr = IF ofs > size /\ "FA_WRITE" \notin fp.flag
                                       THEN size ELSE ofs]]

\* The Get_NextCluster variant that ends the chain one cluster late
Get_NextCluster_OneMore(fs, fp, clst) ==
  IF fs.g_fs = NULL THEN END_OF_CHAIN
  ELSE LET ncl == cluster_count(fp.objsize)
           base == IF fp.sclust # 0 THEN fp.sclust ELSE 2
       IN  IF clst < base THEN base
           ELSE IF (clst - base) >= ncl THEN END_OF_CHAIN
           ELSE base + (clst - base) + 1

\* Get_NextCluster on the object of handle fp
Get_NextCluster(fs, fp, clst) ==
  IF fs.g_fs = NULL THEN END_OF_CHAIN
  ELSE LET ncl == cluster_count(fp.objsize)
           base == IF fp.sclust # 0 THEN fp.sclust ELSE 2
       IN  IF clst < base THEN base
           ELSE IF (clst - base) + 1 >= ncl THEN END_OF_CHAIN
           ELSE base + (clst - base) + 1

\* ------------------------------------------------------------------------
\* Virtual Filesystem: the state machine
\* ------------------------------------------------------------------------

\* FIL objects the callers hold
Handles == {1, 2}

\* The callers' DIR objects
DirObjs == {1, 2}

\* Calls made in a run of the tree operations / of the file operations
MaxTreeSteps == 6

MaxIOSteps == 5

\* The number of calls in a run of directory operations
MaxDirSteps == 6

\* The number of calls in a run that ends in a mount
MaxMountSteps == 7

\* A byte value an uninitialised allocation can hold besides 0
JunkByte == 170

FsInit ==
  /\ vfs = [g_fs |-> NULL, g_root |-> NULL, g_cwd |-> NULL, g_nextCluster |-> 2,
           g_mounted |-> 0, g_node_pool |-> [i \in NodeSlots |-> ZeroNode],
           g_node_used |-> 0, g_iter_dir |-> NULL, g_iter_next |-> NULL]
  /\ fil = [h \in Handles |-> ZeroFil]
  /\ fs_last = [op |-> "none"]
  /\ steps = 0
  /\ fault = "none"
  /\ c5 = [stage |-> "idle"]
  /\ dirs = [d \in DirObjs |-> ZeroDir]
  /\ c14 = [stage |-> "idle"]
  /\ closed = {}
  /\ heap = 0

\* The create / write / read-back sequence after call ev, given the FIL
\* objects after the call: a file is created through a writable handle, bytes
\* are written through it at offset 0, then the handle is rewound or another
\* handle is opened on the file, then as many bytes are read
c5_step(m, ev, fil2) ==
  IF ev.op = "open" /\ ev.res = "FR_OK" /\ ev.found = NULL /\ "FA_WRITE" \in ev.mode
  THEN [stage |-> "created", h |-> ev.h, node |-> fil2[ev.h].dir_ptr]
  ELSE IF m.stage = "created" /\ ev.op = "write" /\ ev.h = m.h
          /\ ev.res = "FR_OK" /\ ev.at = 0
       THEN [stage |-> "written", h |-> m.h, node |-> m.node, bytes |-> ev.buff]
  ELSE IF m.stage = "written" /\ ev.op = "lseek" /\ ev.h = m.h /\ ev.ofs = 0
          /\ ev.res = "FR_OK"
       THEN [stage |-> "ready", h |-> m.h, node |-> m.node, bytes |-> m.bytes,
             fresh |-> FALSE]
  ELSE IF m.stage = "written" /\ ev.op = "open" /\ ev.h # m.h /\ ev.res = "FR_OK"
          /\ fil2[ev.h].dir_ptr = m.node
       THEN [stage |-> "ready", h |-> ev.h, node |-> m.node, bytes |-> m.bytes,
             fresh |-> TRUE]
  ELSE IF m.stage = "ready" /\ ev.op = "read" /\ ev.h = m.h
          /\ ev.btr = RLen(m.bytes)
       THEN [stage |-> "read", h |-> m.h, node |-> m.node, bytes |-> m.bytes,
             fresh |-> m.fresh, res |-> ev.res, br |-> ev.br, got |-> ev.buf]
  ELSE [stage |-> "idle"]

\* The children of directory d in list order
Children(fs, d) ==
  sibling_list(fs.g_node_pool, fs.g_node_pool[d].firstChild, FS_MAX_NODES)

\* The iteration session after call ev, which took the filesystem from fs1 to
\* fs2.  A successful f_opendir starts a session on its DIR object: rest is
\* the children still to come, rest0 the same when rewinds are not counted.
\* A session ends with f_closedir, with a mount, with a change to the node
\* pool, and with an f_readdir through another DIR object.
c14_step(m, ev, fs1, fs2) ==
  IF ev.op = "opendir" /\ ev.res = "FR_OK"
  THEN [stage |-> "open", d |-> ev.d, dir |-> ev.node,
        rest |-> Children(fs2, ev.node), rest0 |-> Children(fs2, ev.node)]
  ELSE IF m.stage = "idle" THEN m
  ELSE IF \/ ev.op \in {"closedir", "mount"}
          \/ fs2.g_node_pool # fs1.g_node_pool
          \/ (ev.op = "readdir" /\ ev.d # m.d)
       THEN [stage |-> "idle"]
  ELSE IF ev.op = "readdir" /\ ev.res = "FR_OK"
       THEN IF ev.fno_null
            THEN [m EXCEPT !.rest = Children(fs2, m.dir)]
            ELSE [m EXCEPT !.rest = IF @ = << >> THEN @ ELSE Tail(@),
                           !.rest0 = IF @ = << >> THEN @ ELSE Tail(@)]
  ELSE m

\* The handles f_close was called on since they were last opened
closed_step(cl, ev) ==
  IF ev.op = "close" THEN cl \union {ev.h}
  ELSE IF ev.op = "open" /\ ev.res = "FR_OK" THEN cl \ {ev.h}
  ELSE cl

\* The pool slots whose data pointer is NULL in fs and set in fs2
Pointed(fs, fs2) ==
  { n \in NodeSlots : fs.g_node_pool[n].data.null /\ ~ fs2.g_node_pool[n].data.null }

\* The heap after call ev took the filesystem from fs to fs2: f_write gets a
\* buffer from malloc for a node that has none (realloc keeps the count),
\* f_unlink hands the buffer of its node to free, no other call frees
heap_step(hp, ev, fs, fs2) ==
  IF ev.op = "write" THEN hp + Cardinality(Pointed(fs, fs2))
  ELSE IF ev.op = "unlink" THEN hp - Cardinality(Pointed(fs2, fs))
  ELSE hp

\* What every call does besides its own effect, dirs2 being the DIR objects
\* after it
CalledDir(ev, fil2, dirs2) ==
  /\ fault # "null_deref"
  /\ fs_last' = ev
  /\ steps' = steps + 1
  /\ c5' = c5_step(c5, ev, fil2)
  /\ dirs' = dirs2
  /\ c14' = c14_step(c14, ev, vfs, vfs')
  /\ closed' = closed_step(closed, ev)
  /\ heap' = heap_step(heap, ev, vfs, vfs')
  /\ UNCHANGED sd_vars

\* What every call that takes no DIR object does besides its own effect
Called(ev, fil2) == CalledDir(ev, fil2, dirs)

FMount(fsobj_null) ==
  \E r \in {f_mount(vfs, fsobj_null)} :
    /\ vfs' = r.fs
    /\ UNCHANGED << fil, fault >>
    /\ Called([op |-> "mount", fsobj_null |-> fsobj_null, res |-> r.res], fil)

FOpen(h, path, mode) ==
  \E r \in {f_open(vfs, fil[h], path, mode)} :
    /\ vfs' = r.fs
    /\ fil' = [fil EXCEPT ![h] = r.fp]
    /\ fault' = IF r.crash THEN "null_deref" ELSE fault
    /\ Called([op |-> "open", h |-> h, path |-> path, mode |-> mode,
               found |-> fs_resolve(vfs, path), res |-> r.res],
              [fil EXCEPT ![h] = r.fp])

FClose(h) ==
  \E r \in {f_close(fil[h])} :
    /\ fil' = [fil EXCEPT ![h] = r.fp]
    /\ UNCHANGED << vfs, fault >>
    /\ Called([op |-> "close", h |-> h, res |-> r.res], fil)

FRead(h, btr, junk) ==
  \E r \in {f_read(vfs, fil[h], btr, junk)} :
    /\ fil' = [fil EXCEPT ![h] = r.fp]
    /\ fault' = IF r.overrun THEN "heap_overrun" ELSE fault
    /\ UNCHANGED vfs
    /\ Called([op |-> "read", h |-> h, btr |-> btr, res |-> r.res, br |-> r.br,
               buf |-> r.buf],
              [fil EXCEPT ![h] = r.fp])

FWrite(h, buff, malloc_ok, junk) ==
  \E r \in {f_write(vfs, fil[h], buff, malloc_ok, junk)} :
    /\ vfs' = r.fs
    /\ fil' = [fil EXCEPT ![h] = r.fp]
    /\ fault' = IF r.overrun THEN "heap_overrun" ELSE fault
    /\ Called([op |-> "write", h |-> h, buff |-> buff, at |-> fil[h].fptr,
               res |-> r.res, bw |-> r.bw],
              [fil EXCEPT ![h] = r.fp])

FLseek(h, ofs) ==
  \E r \in {f_lseek(vfs, fil[h], ofs)} :
    /\ fil' = [fil EXCEPT ![h] = r.fp]
    /\ UNCHANGED << vfs, fault >>
    /\ Called([op |-> "lseek", h |-> h, ofs |-> ofs, res |-> r.res],
              [fil EXCEPT ![h] = r.fp])

FUnlink(path) ==
  \E r \in {f_unlink(vfs, path)} :
    /\ vfs' = r.fs
    /\ UNCHANGED << fil, fault >>
    /\ Called([op |-> "unlink", path |-> path, res |-> r.res], fil)

FRename(path_old, path_new) ==
  \E r \in {f_rename(vfs, path_old, path_new)} :
    /\ vfs' = r.fs
    /\ fault' = IF r.crash THEN "null_deref" ELSE fault
    /\ UNCHANGED fil
    /\ Called([op |-> "rename", path |-> path_old, path_new |-> path_new,
               res |-> r.res], fil)

FMkdir(path) ==
  \E r \in {f_mkdir(vfs, path)} :
    /\ vfs' = r.fs
    /\ fault' = IF r.crash THEN "null_deref" ELSE fault
    /\ UNCHANGED fil
    /\ Called([op |-> "mkdir", path |-> path, res |-> r.res], fil)

FChdir(path) ==
  \E r \in {f_chdir(vfs, path)} :
    /\ vfs' = r.fs
    /\ UNCHANGED << fil, fault >>
    /\ Called([op |-> "chdir", path |-> path, res |-> r.res], fil)

FOpendir(d, path) ==
  \E r \in {f_opendir(vfs, dirs[d], path)} :
    /\ vfs' = r.fs
    /\ UNCHANGED << fil, fault >>
    /\ CalledDir([op |-> "opendir", d |-> d, path |-> path, res |-> r.res,
                  node |-> IF path = << >> THEN vfs.g_cwd
                           ELSE fs_resolve(vfs, path)],
                 fil, [dirs EXCEPT ![d] = r.dp])

FReaddir(d, fno_null) ==
  \E r \in {f_readdir(vfs, dirs[d], fno_null)} :
    /\ vfs' = r.fs
    /\ UNCHANGED << fil, fault >>
    /\ Called([op |-> "readdir", d |-> d, fno_null |-> fno_null, res |-> r.res,
               filled |-> r.filled,
               fname |-> IF r.filled THEN r.fname ELSE ""],
              fil)

FClosedir(d) ==
  \E r \in {f_closedir(vfs, dirs[d])} :
    /\ vfs' = r.fs
    /\ UNCHANGED << fil, fault >>
    /\ CalledDir([op |-> "closedir", d |-> d, res |-> r.res], fil,
                 [dirs EXCEPT ![d] = r.dp])

\* Paths the tree operations are called with
TreeOpenPaths ==
  { << "/", "A", "/", "B", "/", "C.txt" >>,
    << "/", "Readme.txt", "/", "B", "/", "C.txt" >>,
    << "/", "readme.txt" >> }

TreeModes == { {"FA_WRITE", "FA_CREATE_NEW"}, {"FA_WRITE", "FA_OPEN_ALWAYS"} }

UnlinkPaths ==
  { << "/" >>, << "/", "A" >>, << "/", "A", "/", "B" >>,
    << "/", "A", "/", "B", "/", "C.txt" >>, << "." >>, << "/", "SYSTEM" >> }

RenamePairs ==
  { << << "/", "A", "/", "B", "/", "C.txt" >>, << "/", "X", "/", "C.txt" >> >>,
    << << "/", "A" >>, << "/", "A", "/", "X", "/", "A2" >> >>,
    << << "/", "nope" >>, << "/", "X", "/", "C.txt" >> >>,
    << << "/", "Sample.gb" >>, << "/", "readme.txt" >> >> }

MkdirPaths ==
  { << "/", "A" >>, << "/", "a", "/", "B" >>, << "/", "Readme.txt", "/", "B" >>,
    << "/", "N", "/", "..", "/", "M" >> }

ChdirPaths == { << "/", "A" >>, << "/", "SYSTEM", "/", "PATCH" >> }

TreeNext ==
  /\ steps < MaxTreeSteps
  /\ \/ \E n \in BOOLEAN : FMount(n)
     \/ \E p \in TreeOpenPaths, m \in TreeModes : FOpen(1, p, m)
     \/ \E p \in UnlinkPaths : FUnlink(p)
     \/ \E pp \in RenamePairs : FRename(pp[1], pp[2])
     \/ \E p \in MkdirPaths : FMkdir(p)
     \/ \E p \in ChdirPaths : FChdir(p)

\* Paths, modes and buffers the file operations are called with
IOPaths ==
  { << "/", "C.txt" >>, << "/", "Readme.txt" >>, << "/", "Sample.gb" >> }

IOModes == { {"FA_READ"}, {"FA_READ", "FA_WRITE", "FA_CREATE_ALWAYS"} }

IOBuffers ==
  { Fill(3, 1), RCat(Fill(1, 1), Fill(2, 2)), Fill(2 * clusterSizeBytes, 2) }

IOLengths == { 3, 2 * clusterSizeBytes }

IOOffsets == { 0, 5 }

\* malloc and realloc can fail; the bytes of a new allocation are arbitrary
Allocations(h, buff) ==
  IF fil[h].dir_ptr = NULL THEN { << TRUE, 0 >> }
  ELSE LET node == vfs.g_node_pool[fil[h].dir_ptr]
       IN  IF node.data.null \/ fil[h].fptr + RLen(buff) > node.size
           THEN { << FALSE, 0 >>, << TRUE, 0 >>, << TRUE, JunkByte >> }
           ELSE { << TRUE, 0 >> }

IONext ==
  /\ steps < MaxIOSteps
  /\ \/ \E n \in BOOLEAN : FMount(n)
     \/ \E h \in Handles, p \in IOPaths, m \in IOModes : FOpen(h, p, m)
     \/ \E h \in Handles : FClose(h)
     \/ \E h \in Handles, n \in IOLengths, j \in {0, JunkByte} : FRead(h, n, j)
     \/ \E h \in Handles, b \in IOBuffers :
          \E a \in Allocations(h, b) : FWrite(h, b, a[1], a[2])
     \/ \E h \in Handles, o \in IOOffsets : FLseek(h, o)

\* Paths the directory operations are called with
OpendirPaths ==
  { << >>, << "/", "SYSTEM", "/", "PATCH" >>, << "/", "GAMES" >>,
    << "/", "Readme.txt" >> }

DirMkdirPaths ==
  { << "/", "SYSTEM", "/", "PATCH", "/", "X" >>,
    << "/", "SYSTEM", "/", "PATCH", "/", "Y" >> }

DirUnlinkPaths == { << "/", "SYSTEM", "/", "PATCH", "/", "X" >> }

DirChdirPaths == { << "/", "SYSTEM" >>, << "/", "SYSTEM", "/", "PATCH" >> }

DirNext ==
  /\ steps < MaxDirSteps
  /\ \/ \E n \in BOOLEAN : FMount(n)
     \/ \E d \in DirObjs, p \in OpendirPaths : FOpendir(d, p)
     \/ \E d \in DirObjs, n \in BOOLEAN : FReaddir(d, n)
     \/ \E d \in DirObjs : FClosedir(d)
     \/ \E p \in DirMkdirPaths : FMkdir(p)
     \/ \E p \in DirUnlinkPaths : FUnlink(p)
     \/ \E p \in DirChdirPaths : FChdir(p)

\* One call of each kind ahead of a mount
MountNext ==
  /\ steps < MaxMountSteps
  /\ \/ \E n \in BOOLEAN : FMount(n)
     \/ FOpen(1, << "/", "A", "/", "B", "/", "C.txt" >>,
              {"FA_READ", "FA_WRITE", "FA_OPEN_ALWAYS"})
     \/ FOpen(1, << "/", "Readme.txt" >>, {"FA_READ", "FA_WRITE"})
     \/ \E j \in {0, JunkByte} : FWrite(1, Fill(3, 1), TRUE, j)
     \/ FRename(<< "/", "GAMES" >>, << "/", "SYSTEM", "/", "G" >>)
     \/ \E p \in { << "." >>, << "/", "Sample.gb" >>,
                   << "/", "A", "/", "B", "/", "C.txt" >> } : FUnlink(p)
     \/ FChdir(<< "/", "SYSTEM", "/", "PATCH" >>)
     \/ FMkdir(<< "D" >>)
     \/ FOpendir(1, << >>)
     \/ FReaddir(1, FALSE)

Init == SdInit /\ FsInit

SpecSD == Init /\ [][SdNext]_vars

SpecP0 == Init /\ [][P0Next]_vars

SpecTree == Init /\ [][TreeNext]_vars

SpecIO == Init /\ [][IONext]_vars

SpecDir == Init /\ [][DirNext]_vars

SpecMount == Init /\ [][MountNext]_vars

\* ------------------------------------------------------------------------
\* Sector Store: claims
\* ------------------------------------------------------------------------

\* What a read of one in-range sector returns in state s
SectorContent(s, x) ==
  IF ~ s.g_img_ram.null THEN s.g_img_ram.mem[x] ELSE read_sector(s, x)

\* A request with a buffer and count >= 1 that lies inside the image
InRange(address, count) == count >= 1 /\ address + count <= ImageSectors

\* A request with count >= 1 that starts or ends beyond the image
OutOfRange(address, count) ==
  count >= 1 /\ (address >= ImageSectors \/ address + count > ImageSectors)

\* C1: in both modes, a Write_SD_sectors that returns RES_OK, followed at
\* once by Read_SD_sectors of the same range, returns RES_OK and exactly the
\* payloads that were written.
C1_WriteThenReadReturnsWritten ==
  (sd_last.op = "write" /\ sd_last.res = "RES_OK")
    => LET r == Read_SD_sectors(sd, 1, sd_last.address, sd_last.count,
                                DstBuf(sd_last.count))
       IN  r.res = "RES_OK" /\ r.buf = sd_last.arg

\* C2: a request with count >= 1 that starts at or runs beyond the sector
\* count fails with RES_PARERR and copies nothing: a read leaves the
\* destination buffer as it was, a write leaves the mutable copy and the
\* overlay as they were (a first request initializes the store, and nothing
\* more: the mutable copy is the image, or no overlay slot is used).
C2_OutOfRangeFailsAndCopiesNothing ==
  [][ ( /\ sd_last'.op \in {"read", "write"}
        /\ ~ sd_last'.arg.null
        /\ OutOfRange(sd_last'.address, sd_last'.count) )
      => /\ sd_last'.res = "RES_PARERR"
         /\ sd_last'.buf = sd_last'.arg
         /\ sd.g_sd_ready = 1 => sd' = sd
         /\ sd.g_sd_ready = 0 =>
              IF sd'.g_img_ram.null
              THEN /\ \A i \in OverlaySlots : sd'.overlay_sector_id[i] = FREE_ID
                   /\ sd'.overlay_used_count = 0
              ELSE \A x \in Window : sd'.g_img_ram.mem[x] = disk_bin[x]
    ]_sd_vars

\* C2 witness: an overlay store that holds written sectors has just refused
\* a write that starts inside the image and ends beyond it.
C2_Witness ==
  /\ sd_last.op = "write"
  /\ ~ sd_last.arg.null
  /\ sd_last.address < ImageSectors
  /\ OutOfRange(sd_last.address, sd_last.count)
  /\ sd_last.res = "RES_PARERR"
  /\ sd.g_img_ram.null
  /\ sd.overlay_used_count > 0

\* Reference overlay bookkeeping: entries a range still needs, slots left
NeedsNew(sh, address, count) ==
  Cardinality({ x \in address .. (address + count - 1) : x \notin DOMAIN sh })

FreeSlots(sh) == MAX_OVERLAY_SECTORS - Cardinality(DOMAIN sh)

\* C3: in overlay mode a write whose range needs more new overlay entries
\* than are still free fails with the capacity error (RES_ERROR, not RES_OK);
\* the sectors processed before exhaustion hold the new data, and every
\* sector accepted by earlier writes still reads back the data last written.
C3_CapacityExceededKeepsAccepted ==
  [][ ( /\ sd_last'.op = "write"
        /\ ~ sd_last'.arg.null
        /\ InRange(sd_last'.address, sd_last'.count)
        /\ sd'.g_img_ram.null
        /\ NeedsNew(shadow, sd_last'.address, sd_last'.count) > FreeSlots(shadow) )
      => /\ sd_last'.res = "RES_ERROR"
         /\ \A x \in DOMAIN shadow' : read_sector(sd', x) = shadow'[x]
    ]_sd_vars

\* C4: in overlay mode a write to a range (succeeding or failing part-way)
\* leaves what is read from every in-range sector outside the range as it
\* was.
C4_OverlayWriteFrame ==
  [][ ( /\ sd_last'.op = "write"
        /\ sd.g_sd_ready = 1
        /\ sd.g_img_ram.null )
      => \A x \in Window :
           (x < sd_last'.address \/ x >= sd_last'.address + sd_last'.count)
             => read_sector(sd', x) = read_sector(sd, x)
    ]_sd_vars

\* ------------------------------------------------------------------------
\* Virtual Filesystem: claims
\* ------------------------------------------------------------------------

\* Pool slots a new node can take
FreeNodes(fs) ==
  (FS_MAX_NODES - fs.g_node_used)
    + Cardinality({ i \in 0 .. (fs.g_node_used - 1) :
                      fs.g_node_pool[i].name = "" /\ fs.g_node_pool[i].attr = 0 })

\* The named segments of a path
Segments(path) == { k \in 1 .. Len(path) : path[k] # "/" }

\* The directory prefixes of a path: what precedes each later segment
DirPrefixes(path) ==
  { SubSeq(path, 1, k) : k \in { j \in Segments(path) : j < Len(path) } }

\* The directory prefixes of a path that do not resolve
MissingDirs(fs, path) == { d \in DirPrefixes(path) : fs_resolve(fs, d) = NULL }

IsFileNode(fs, n) ==
  n # NULL /\ ~ IsDir(fs.g_node_pool[n].attr) /\ fs.g_node_pool[n].attr # 0

\* max(1, ceil(S / clusterSizeBytes))
ClustersOf(S) == IF S = 0 THEN 1 ELSE ((S - 1) \div clusterSizeBytes) + 1

\* C5: when a file has just been created through a writable handle and N
\* bytes were written through it at offset 0, a read of N bytes at offset 0,
\* through that handle after a seek to 0 or through another handle opened on
\* the file, returns FR_OK and exactly the N bytes written.  A read through
\* a handle whose cursor is at or beyond the size of its file returns FR_OK
\* with 0 bytes and leaves the cursor where it was.
C5_WriteThenReadBack ==
  [][ /\ (c5'.stage = "read") =>
           /\ c5'.res = "FR_OK"
           /\ c5'.br = RLen(c5'.bytes)
           /\ c5'.got = c5'.bytes
      /\ ( /\ fs_last'.op = "read"
           /\ vfs.g_mounted = 1
           /\ fil[fs_last'.h].dir_ptr # NULL
           /\ fil[fs_last'.h].fptr >= vfs.g_node_pool[fil[fs_last'.h].dir_ptr].size )
         => /\ fs_last'.res = "FR_OK"
            /\ fs_last'.br = 0
            /\ fs_last'.buf = << >>
            /\ fil'[fs_last'.h].fptr = fil[fs_last'.h].fptr
    ]_vars

\* Bytes of two values were written to a new file and read back through
\* another handle
C5_Witness ==
  /\ c5.stage = "read"
  /\ c5.fresh
  /\ c5.got = RCat(Fill(1, 1), Fill(2, 2))
  /\ fs_last.op = "read" /\ fs_last.br = 3

\* C6: open with a creation flag on a path whose parent directory does not
\* exist, with room in the pool for the missing directories and the file,
\* returns FR_OK; afterwards stat of every directory prefix reports a directory of size 0 and stat of
\* the path reports a file of size 0.
C6_OpenCreatesMissingDirectories ==
  [][ ( /\ fs_last'.op = "open"
        /\ fs_last'.mode \cap CreateFlags # {}
        /\ vfs.g_mounted = 1
        /\ fs_resolve(vfs, parent_path(fs_last'.path)) = NULL
        /\ FreeNodes(vfs) >= Cardinality(MissingDirs(vfs, fs_last'.path)) + 1 )
      => /\ fs_last'.res = "FR_OK"
         /\ \A d \in DirPrefixes(fs_last'.path) :
              /\ f_stat(vfs', d).res = "FR_OK"
              /\ IsDir(f_stat(vfs', d).fattrib)
              /\ f_stat(vfs', d).fsize = 0
         /\ f_stat(vfs', fs_last'.path).res = "FR_OK"
         /\ f_stat(vfs', fs_last'.path).fattrib = AM_ARC
         /\ f_stat(vfs', fs_last'.path).fsize = 0
    ]_vars

\* C7: unlink of the root or of a directory with a child returns FR_DENIED
\* and changes nothing; unlink of a directory without children, other than
\* the root, returns FR_OK, and afterwards the directory is not among the
\* children of its former parent and the path no longer resolves.
C7_UnlinkDirectory ==
  [][ \A n \in NodeSlots :
        ( /\ fs_last'.op = "unlink"
          /\ fs_resolve(vfs, fs_last'.path) = n
          /\ IsDir(vfs.g_node_pool[n].attr) )
        => IF n = vfs.g_root \/ vfs.g_node_pool[n].firstChild # NULL
           THEN fs_last'.res = "FR_DENIED" /\ vfs' = vfs
           ELSE /\ fs_last'.res = "FR_OK"
                /\ \A d \in NodeSlots :
                     \A i \in 1 .. Len(Children(vfs', d)) : Children(vfs', d)[i] # n
                /\ fs_resolve(vfs', fs_last'.path) = NULL
    ]_vars

\* C8: rename of a path that resolves to a node, to a path whose parent
\* directory does not exist, with room in the pool for the missing
\* directories, returns FR_OK; afterwards the new path resolves to that node, whose kind,
\* size and content are as before, and the old path does not resolve.
\* rename of a path that does not resolve fails and changes nothing.
C8_RenameIntoMissingParent ==
  [][ /\ \A n \in NodeSlots :
           ( /\ fs_last'.op = "rename"
             /\ fs_resolve(vfs, fs_last'.path) = n
             /\ last_slash(fs_last'.path_new) # 0
             /\ fs_resolve(vfs, parent_path(fs_last'.path_new)) = NULL
             /\ FreeNodes(vfs)
                  >= Cardinality(MissingDirs(vfs, fs_last'.path_new)) )
           => /\ fs_last'.res = "FR_OK"
              /\ fs_resolve(vfs', fs_last'.path_new) = n
              /\ vfs'.g_node_pool[n].attr = vfs.g_node_pool[n].attr
              /\ vfs'.g_node_pool[n].size = vfs.g_node_pool[n].size
              /\ vfs'.g_node_pool[n].data = vfs.g_node_pool[n].data
              /\ fs_resolve(vfs', fs_last'.path) = NULL
      /\ ( fs_last'.op = "rename" /\ fs_resolve(vfs, fs_last'.path) = NULL )
         => fs_last'.res # "FR_OK" /\ vfs' = vfs
    ]_vars

\* C9: for a handle just opened on a file of size S and start cluster c,
\* with n = max(1, ceil(S / clusterSizeBytes)), Get_NextCluster of c + i is
\* c + i + 1 for every i below n - 1 and is the end-of-chain value for
\* c + n - 1.
C9_ClusterChain ==
  [][ ( /\ fs_last'.op = "open"
        /\ fs_last'.res = "FR_OK"
        /\ IsFileNode(vfs', fil'[fs_last'.h].dir_ptr) )
      => LET fp == fil'[fs_last'.h]
             c == vfs'.g_node_pool[fp.dir_ptr].startCluster
             n == ClustersOf(vfs'.g_node_pool[fp.dir_ptr].size)
         IN  \A i \in 0 .. (n - 1) :
               Get_NextCluster(vfs', fp, c + i)
                 = IF i < n - 1 THEN c + i + 1 ELSE END_OF_CHAIN
    ]_vars

\* A handle was just opened on a file of exactly two clusters
C9_Witness ==
  /\ fs_last.op = "open"
  /\ fs_last.res = "FR_OK"
  /\ fil[fs_last.h].objsize = 2 * clusterSizeBytes
  /\ Get_NextCluster(vfs, fil[fs_last.h], fil[fs_last.h].sclust + 1) = END_OF_CHAIN

\* C10: open with FA_CREATE_NEW on a path that resolves to an existing file
\* returns FR_EXIST and leaves the handle referring to no node.
C10_CreateNewOnExistingFile ==
  [][ ( /\ fs_last'.op = "open"
        /\ "FA_CREATE_NEW" \in fs_last'.mode
        /\ vfs.g_mounted = 1
        /\ IsFileNode(vfs, fs_resolve(vfs, fs_last'.path)) )
      => /\ fs_last'.res = "FR_EXIST"
         /\ fil'[fs_last'.h].dir_ptr = NULL
    ]_vars

\* C11 as stated: a write through a handle that was opened, but not for
\* writing, returns FR_DENIED, reports 0 bytes written, and leaves the file
\* content, the file size and the cursor unchanged.
C11_WriteDenied_Original ==
  [][ ( /\ fs_last'.op = "write"
        /\ fil[fs_last'.h].dir_ptr # NULL
        /\ "FA_WRITE" \notin fil[fs_last'.h].flag )
      => /\ fs_last'.res = "FR_DENIED"
         /\ fs_last'.bw = 0
         /\ vfs' = vfs
         /\ fil' = fil
    ]_vars

\* C11: while the filesystem is mounted, a write through a handle that was
\* not opened for writing returns FR_DENIED, reports 0 bytes written, and
\* leaves the file content, the file size and the cursor unchanged; while it
\* is not mounted the write returns FR_INVALID_PARAMETER, with the same frame.
C11_WriteDenied ==
  [][ ( /\ fs_last'.op = "write"
        /\ "FA_WRITE" \notin fil[fs_last'.h].flag )
      => /\ fs_last'.res = IF vfs.g_mounted = 1 THEN "FR_DENIED"
                           ELSE "FR_INVALID_PARAMETER"
         /\ fs_last'.bw = 0
         /\ vfs' = vfs
         /\ fil' = fil
    ]_vars

\* A write through a handle opened for reading on a file was turned down
C11_Witness ==
  /\ fs_last.op = "write"
  /\ fs_last.res = "FR_DENIED"
  /\ fil[fs_last.h].dir_ptr # NULL
  /\ fil[fs_last.h].flag = {"FA_READ"}

\* What C12 says of one read: node is the handle's file before the call, p the
\* cursor before it, ev the record of the call, fptr2 the cursor after it
C12_ReadOf(node, p, copied, ev, fptr2) ==
  /\ ev.res = "FR_OK"
  /\ ev.br = copied
  /\ fptr2 = p + copied
  /\ ev.buf = IF node.data.null THEN Fill(copied, 0)
              ELSE RSlice(node.data.bytes, p, copied)
  /\ RLen(ev.buf) = copied

\* C12: a read of len bytes with the cursor at p in a file of size S (mounted,
\* the handle names the file) returns FR_OK, copies min(len, S - p) bytes (0
\* when p >= S), advances the cursor by that number and reports it; the bytes
\* are the content at [p, p + copied), or zeros when the file has no buffer.
C12_ReadCopiesContent ==
  [][ ( /\ fs_last'.op = "read"
        /\ vfs.g_mounted = 1
        /\ fil[fs_last'.h].dir_ptr # NULL )
      => C12_ReadOf(vfs.g_node_pool[fil[fs_last'.h].dir_ptr],
                    fil[fs_last'.h].fptr,
                    IF fil[fs_last'.h].fptr
                         >= vfs.g_node_pool[fil[fs_last'.h].dir_ptr].size
                    THEN 0
                    ELSE Min(fs_last'.btr,
                             vfs.g_node_pool[fil[fs_last'.h].dir_ptr].size
                               - fil[fs_last'.h].fptr),
                    fs_last', fil'[fs_last'.h].fptr)
         /\ vfs' = vfs
    ]_vars

\* The bytes a read of the gap [S, q) returns through handle fp in filesystem
\* state fs2, whatever lies on the heap
C13_GapReads(fs2, fp, S, q) ==
  { f_read(fs2, [fp EXCEPT !.fptr = S], q - S, j).buf : j \in {0, JunkByte} }

\* C13: a write of k bytes that returns FR_OK through a writable handle whose
\* cursor q lies beyond the size S of its file grows the file to q + k, and a
\* read of the gap [S, q) returns only zero bytes, for files with and without
\* a buffer.
C13_SeekBeyondThenWrite ==
  [][ ( /\ fs_last'.op = "write"
        /\ fs_last'.res = "FR_OK"
        /\ fil[fs_last'.h].dir_ptr # NULL
        /\ fs_last'.at > vfs.g_node_pool[fil[fs_last'.h].dir_ptr].size )
      => /\ vfs'.g_node_pool[fil[fs_last'.h].dir_ptr].size
              = fs_last'.at + fs_last'.bw
         /\ C13_GapReads(vfs', fil'[fs_last'.h],
                         vfs.g_node_pool[fil[fs_last'.h].dir_ptr].size,
                         fs_last'.at)
              = { Fill(fs_last'.at
                         - vfs.g_node_pool[fil[fs_last'.h].dir_ptr].size, 0) }
    ]_vars

\* The members of seq that are in set S, in their order
RECURSIVE KeepIn(_, _)
KeepIn(seq, S) ==
  IF seq = << >> THEN << >>
  ELSE IF Head(seq) \in S THEN << Head(seq) >> \o KeepIn(Tail(seq), S)
  ELSE KeepIn(Tail(seq), S)

Range(seq) == { seq[i] : i \in 1 .. Len(seq) }

\* The new child list of a directory is the old one without the children that
\* left, followed by the children that came
ListGrowsAtEnd(old, new) ==
  SubSeq(new, 1, Len(KeepIn(old, Range(new)))) = KeepIn(old, Range(new))

\* The names of the nodes of a list
NamesOf(fs, seq) == [i \in 1 .. Len(seq) |-> fs.g_node_pool[seq[i]].name]

\* The default layout in the order fs_populate_default inserts it
DefaultOrder(fs) ==
  /\ NamesOf(fs, Children(fs, fs.g_root))
       = << "SYSTEM", "ALTT.gba", "Metroid.gba", "Sample.gb", "Readme.txt",
            "GAMES" >>
  /\ NamesOf(fs, Children(fs, fs_resolve(fs, << "/", "SYSTEM" >>)))
       = << "PATCH", "PLUG", "RECENT.TXT" >>
  /\ NamesOf(fs, Children(fs, fs_resolve(fs, << "/", "GAMES" >>)))
       = << "Pokemon.gba", "MarioKart.gba" >>

\* What C14 says of an f_readdir with a FILINFO through the DIR object of the
\* session, rest being the children still to come
C14_Yields(rest, ev, fs1) ==
  /\ ev.res = "FR_OK"
  /\ ev.filled
  /\ ev.fname = IF rest = << >> THEN "" ELSE fs1.g_node_pool[Head(rest)].name

\* C14 as stated: after a successful f_opendir on a directory, with no change
\* to the tree, no other f_opendir or f_closedir and no f_readdir through
\* another DIR object, the f_readdir calls with a FILINFO yield the children
\* in insertion order, and every later one yields the empty name with FR_OK.
C14_ReaddirOrder_Original ==
  [][ ( /\ fs_last'.op = "readdir"
        /\ c14.stage = "open"
        /\ fs_last'.d = c14.d
        /\ ~ fs_last'.fno_null )
      => C14_Yields(c14.rest0, fs_last', vfs)
    ]_vars

\* C14: a child list only grows at its end (a mount builds the default layout
\* in its source order), and in a session opened by a successful f_opendir,
\* with no change to the tree, no other f_opendir or f_closedir and no
\* f_readdir through another DIR object, the f_readdir calls with a FILINFO
\* yield the children in list order, then the empty name with FR_OK, until the
\* directory is opened again or an f_readdir with a NULL FILINFO rewinds it.
C14_ReaddirOrder ==
  [][ /\ ( /\ fs_last'.op = "readdir"
           /\ c14.stage = "open"
           /\ fs_last'.d = c14.d
           /\ ~ fs_last'.fno_null )
         => C14_Yields(c14.rest, fs_last', vfs)
      /\ (fs_last'.op = "mount" /\ ~ fs_last'.fsobj_null) => DefaultOrder(vfs')
      /\ (fs_last'.op # "mount")
         => \A d \in NodeSlots :
              ListGrowsAtEnd(Children(vfs, d), Children(vfs', d))
    ]_vars

\* A session on a directory with two children has yielded both and then the
\* end of the directory
C14_Witness ==
  /\ fs_last.op = "readdir"
  /\ fs_last.filled
  /\ fs_last.fname = ""
  /\ c14.stage = "open"
  /\ c14.rest = << >>
  /\ Len(Children(vfs, c14.dir)) >= 2

\* path and each of its directory prefixes resolve to a directory node
ChainOfDirs(fs, path) ==
  \A d \in DirPrefixes(path) \union {path} :
    /\ fs_resolve(fs, d) # NULL
    /\ IsDir(fs.g_node_pool[fs_resolve(fs, d)].attr)

\* C15: while mounted, f_mkdir on a path that resolves returns FR_EXIST and
\* changes nothing; on a path that does not resolve it returns FR_OK only if
\* afterwards the path and every prefix of it resolve to directory nodes.
C15_MkdirChain ==
  [][ (fs_last'.op = "mkdir" /\ vfs.g_mounted = 1)
      => IF fs_resolve(vfs, fs_last'.path) # NULL
         THEN fs_last'.res = "FR_EXIST" /\ vfs' = vfs
         ELSE (fs_last'.res = "FR_OK") => ChainOfDirs(vfs', fs_last'.path)
    ]_vars

\* The walk C16 describes over the named segments segs from node cur: "."
\* stays, ".." moves to the parent and stays at the root, any other segment
\* moves to the child of that name ignoring case (the first such child in
\* list order), and the walk ends as not found where there is none
RECURSIVE C16_Walk(_, _, _)
C16_Walk(fs, segs, cur) ==
  IF cur = NULL THEN NULL
  ELSE IF segs = << >> THEN cur
  ELSE IF Head(segs) = "." THEN C16_Walk(fs, Tail(segs), cur)
  ELSE IF Head(segs) = ".."
       THEN C16_Walk(fs, Tail(segs),
                     IF cur = fs.g_root THEN cur
                     ELSE fs.g_node_pool[cur].parent)
  ELSE LET named == KeepIn(Children(fs, cur),
                           { c \in NodeSlots :
                               Fold(fs.g_node_pool[c].name) = Fold(Head(segs)) })
       IN  IF named = << >> THEN NULL
           ELSE C16_Walk(fs, Tail(segs), Head(named))

\* Paths fs_resolve is compared on
C16_Paths ==
  { << "/" >>, << "." >>, << ".." >>, << "B" >>, << "..", "/", "plug" >>,
    << "/", ".." >>, << "/", "system", "/", "patch" >>,
    << "/", "SYSTEM", "/", "PATCH", "/", "..", "/", "RECENT.TXT" >>,
    << "/", "a", "/", ".", "/", "b" >>, << "/", "Readme.txt", "/", "B" >>,
    << "/", "A", "/", "B", "/", "C.TXT" >>, << "/", "nope", "/", ".." >> }

\* C16: once a root exists, fs_resolve returns the node the walk over the
\* named segments reaches from the root (absolute path) or from the current
\* directory (relative path), and NULL exactly when the walk finds some
\* segment not to be a child of the node reached so far.
C16_Resolve ==
  (vfs.g_root # NULL)
  => \A p \in C16_Paths :
       fs_resolve(vfs, p)
         = C16_Walk(vfs, KeepIn(p, Range(p) \ {"/"}),
                    IF p[1] = "/" THEN vfs.g_root ELSE vfs.g_cwd)

\* The statics before the first call
C17_Statics ==
  [g_fs |-> NULL, g_root |-> NULL, g_cwd |-> NULL, g_nextCluster |-> 2,
   g_mounted |-> 0, g_node_pool |-> [i \in NodeSlots |-> ZeroNode],
   g_node_used |-> 0, g_iter_dir |-> NULL, g_iter_next |-> NULL]

\* What exists in filesystem state fs: the statics and the nodes in use
C17_Existing(fs) ==
  [fs EXCEPT !.g_node_pool = [i \in NodeSlots |->
                                IF i < fs.g_node_used THEN @[i] ELSE ZeroNode]]

\* C17: a mount, whatever calls came before it, leaves the statics and the
\* nodes in use exactly as a first mount does: the default layout only, the
\* current directory at the root, no iteration in progress, the cluster
\* counter as after a first mount.
C17_MountResets ==
  [][ (fs_last'.op = "mount" /\ ~ fs_last'.fsobj_null)
      => /\ C17_Existing(vfs') = C17_Existing(f_mount(C17_Statics, FALSE).fs)
         /\ vfs'.g_cwd = vfs'.g_root
         /\ vfs'.g_iter_dir = NULL /\ vfs'.g_iter_next = NULL
         /\ DefaultOrder(vfs')
         /\ vfs'.g_node_used = 12
    ]_vars

\* A mount has followed the creation of nodes beyond the default layout, a
\* write and a change of directory or an iteration
C17_Witness ==
  /\ fs_last.op = "mount"
  /\ ~ fs_last.fsobj_null
  /\ vfs.g_node_used < FS_MAX_NODES
  /\ vfs.g_node_pool[vfs.g_node_used].name # ""
  /\ fil[1].dir_ptr # NULL
  /\ fil[1].fptr > 0

\* C18: once the store is initialized, ensure_sd_open changes nothing,
\* whatever malloc would return: mode, sector count, mutable copy and overlay
\* entries stay, so a read leaves the store as it was and a write changes it
\* only by what Write_SD_sectors itself does.
C18_InitIdempotent ==
  [][ (sd.g_sd_ready = 1)
      => /\ \A m \in BOOLEAN : ensure_sd_open(sd, m) = [ok |-> 1, s |-> sd]
         /\ (sd_last'.op = "read") => sd' = sd
         /\ (sd_last'.op = "write")
            => sd' = Write_SD_sectors(sd, 1, sd_last'.address, sd_last'.count,
                                      sd_last'.arg).s
    ]_vars

\* A read on the initialized store returns a payload written earlier
C18_Witness ==
  /\ sd.g_sd_ready = 1
  /\ sd_last.op = "read"
  /\ sd_last.res = "RES_OK"
  /\ sd_last.count >= 1
  /\ sd_last.buf.data[1] \in Payloads

\* The request of the last call was turned down without an effect beyond the
\* implicit initialization: no byte copied, the store as ensure_sd_open left it
C19_NoEffect ==
  /\ sd' \in { ensure_sd_open(sd, m).s : m \in BOOLEAN }
  /\ sd_last'.buf = sd_last'.arg
  /\ sd_last'.done = 0
  /\ shadow' = shadow

\* On store s, Read_SD_sectors and Write_SD_sectors turn the request down
\* with the same status, and both accept it otherwise (a write can still run
\* out of overlay slots, which is RES_ERROR after the validation)
C19_SameValidation(s, address, count, SDbuffer) ==
  IF Read_SD_sectors(s, 1, address, count, SDbuffer).res = "RES_OK"
  THEN Write_SD_sectors(s, 1, address, count, SDbuffer).res # "RES_PARERR"
  ELSE Write_SD_sectors(s, 1, address, count, SDbuffer).res
         = Read_SD_sectors(s, 1, address, count, SDbuffer).res

C20_ClosedHandleRejected ==
  [][ ( /\ fs_last'.op \in {"read", "write", "lseek"}
        /\ fs_last'.h \in closed )
      => /\ fs_last'.res # "FR_OK"
         /\ vfs' = vfs
         /\ fil' = fil
    ]_vars

\* The pool slots that hold a node: allocated and not marked free
LiveNodes(fs) ==
  { i \in NodeSlots :
      /\ i < fs.g_node_used
      /\ ~ (fs.g_node_pool[i].name = "" /\ fs.g_node_pool[i].attr = 0) }

\* C21: in every reachable state no file node has children, and no directory
\* node has a size or a content buffer.
C21_FilesHaveNoChildren ==
  \A n \in LiveNodes(vfs) :
    IF IsDir(vfs.g_node_pool[n].attr)
    THEN vfs.g_node_pool[n].size = 0 /\ vfs.g_node_pool[n].data.null
    ELSE vfs.g_node_pool[n].firstChild = NULL

\* Following parent links from node n reaches the root within fuel steps
RECURSIVE ReachesRoot(_, _, _)
ReachesRoot(fs, n, fuel) ==
  IF n = fs.g_root THEN TRUE
  ELSE IF n = NULL \/ fuel = 0 THEN FALSE
  ELSE ReachesRoot(fs, fs.g_node_pool[n].parent, fuel - 1)

\* The number of times node n stands in the child list of directory d
TimesIn(fs, d, n) ==
  Cardinality({ i \in 1 .. Len(Children(fs, d)) : Children(fs, d)[i] = n })

\* C22: once a root exists, the live nodes form a tree: the root has no
\* parent and is the only live node with an empty name; every other live node
\* has a live parent, stands exactly once in that parent's child list and in
\* no other child list, and its parent links lead to the root.
C22_LiveNodesFormTree ==
  (vfs.g_root # NULL)
  => /\ vfs.g_node_pool[vfs.g_root].parent = NULL
     /\ vfs.g_node_pool[vfs.g_root].name = ""
     /\ \A n \in LiveNodes(vfs) \ {vfs.g_root} :
          /\ vfs.g_node_pool[n].name # ""
          /\ vfs.g_node_pool[n].parent \in LiveNodes(vfs)
          /\ \A d \in LiveNodes(vfs) :
               TimesIn(vfs, d, n)
                 = IF d = vfs.g_node_pool[n].parent THEN 1 ELSE 0
          /\ ReachesRoot(vfs, n, FS_MAX_NODES)

\* The call ev, made in filesystem state fs, has a node to create: an open
\* with a creation flag or a mkdir on a path that does not resolve, or a
\* rename of a node to a path whose parent directory does not resolve
C23_NeedsNode(fs, ev) ==
  \/ ev.op = "open" /\ ev.found = NULL /\ ev.mode \cap CreateFlags # {}
  \/ ev.op = "mkdir" /\ fs_resolve(fs, ev.path) = NULL
  \/ /\ ev.op = "rename"
     /\ fs_resolve(fs, ev.path) # NULL
     /\ last_slash(ev.path_new) # 0
     /\ fs_resolve(fs, SubSeq(ev.path_new, 1, last_slash(ev.path_new) - 1))
          = NULL

\* C23: the pool never holds more than FS_MAX_NODES live nodes; fs_alloc_node
\* yields a slot exactly when fewer than FS_MAX_NODES nodes are live; and when
\* every slot is live, a call that has a node to create returns a failure
\* code.
C23_PoolCapacity ==
  [][ /\ Cardinality(LiveNodes(vfs')) <= FS_MAX_NODES
      /\ (fs_alloc_node(vfs).n # NULL)
           <=> (Cardinality(LiveNodes(vfs)) < FS_MAX_NODES)
      /\ ( /\ Cardinality(LiveNodes(vfs)) = FS_MAX_NODES
           /\ C23_NeedsNode(vfs, fs_last') )
         => fs_last'.res \notin {"FR_OK", "CRASH"}
    ]_vars

\* The live file nodes
LiveFiles(fs) == { n \in LiveNodes(fs) : ~ IsDir(fs.g_node_pool[n].attr) }

\* The clusters reserved for the files among the slots below n
RECURSIVE ClustersBelow(_, _)
ClustersBelow(fs, n) ==
  IF n = 0 THEN 0
  ELSE ClustersBelow(fs, n - 1)
         + (IF (n - 1) \in LiveFiles(fs)
            THEN ClustersOf(fs.g_node_pool[n - 1].size) ELSE 0)

\* C24: a mount sets the counter to 2 and gives the files of the default
\* layout, in creation order, consecutive ranges of ClustersOf(size) clusters
\* from 2 on; any other call never lowers the counter, and a file it creates
\* gets the counter's value as start cluster (>= 2, above the start cluster of
\* every file that exists) and moves the counter on by ClustersOf(size).
C24_ClusterCounter ==
  [][ IF fs_last'.op = "mount"
      THEN (~ fs_last'.fsobj_null)
           => /\ \A n \in LiveFiles(vfs') :
                   vfs'.g_node_pool[n].startCluster = 2 + ClustersBelow(vfs', n)
              /\ vfs'.g_nextCluster = 2 + ClustersBelow(vfs', FS_MAX_NODES)
      ELSE /\ vfs'.g_nextCluster >= vfs.g_nextCluster
           /\ vfs.g_nextCluster >= 2
           /\ \A n \in LiveFiles(vfs') \ LiveFiles(vfs) :
                /\ vfs'.g_node_pool[n].startCluster = vfs.g_nextCluster
                /\ \A m \in LiveFiles(vfs) :
                     vfs.g_node_pool[m].startCluster
                       < vfs'.g_node_pool[n].startCluster
                /\ vfs'.g_nextCluster
                     = vfs.g_nextCluster + ClustersOf(vfs'.g_node_pool[n].size)
    ]_vars

\* A file was created after an unlink: the counter did not go back, and the
\* new file starts behind an older one
C24_Witness ==
  /\ fs_last.op = "open" /\ fs_last.res = "FR_OK" /\ fs_last.found = NULL
  /\ vfs.g_node_pool[fil[fs_last.h].dir_ptr].startCluster + 1 = vfs.g_nextCluster
  /\ vfs.g_nextCluster > 2 + ClustersBelow(vfs, FS_MAX_NODES)
  /\ \E m \in LiveFiles(vfs) :
       vfs.g_node_pool[m].startCluster < vfs.g_node_pool[fil[fs_last.h].dir_ptr].startCluster

\* The store runs on the overlay: set up, and the full copy was not allocated
OverlayMode(s) == s.g_sd_ready = 1 /\ s.g_img_ram.null

\* The slots that hold an entry: their id is not the free marker
ActiveSlots(s) == { i \in OverlaySlots : s.overlay_sector_id[i] # FREE_ID }

\* C25: in overlay mode the active entries carry pairwise distinct sector
\* indices, every index is below the sector count, and neither the number of
\* active entries nor the use counter exceeds the capacity.
C25_OverlayEntries ==
  OverlayMode(sd)
  => /\ \A i, j \in ActiveSlots(sd) :
          (sd.overlay_sector_id[i] = sd.overlay_sector_id[j]) => (i = j)
     /\ \A i \in ActiveSlots(sd) : sd.overlay_sector_id[i] < sd.g_sector_count
     /\ Cardinality(ActiveSlots(sd)) <= MAX_OVERLAY_SECTORS
     /\ sd.overlay_used_count = Cardinality(ActiveSlots(sd))

\* A write has filled the last free slot of the overlay
C25_Witness ==
  /\ OverlayMode(sd)
  /\ ActiveSlots(sd) = OverlaySlots
  /\ sd_last.op = "write" /\ sd_last.res = "RES_OK"
  /\ \E i \in OverlaySlots : sd.overlay_sector_data[i] \in Payloads

\* The lookup of the code finds an entry for sector x
HasEntry(s, x) == overlay_find(s, x) # FREE_ID

\* The sectors a request covers
Covered(address, count) == { x \in Window : address <= x /\ x < address + count }

\* A write request with a buffer and a range inside the image
ValidWrite(s, ev) ==
  /\ ev.op = "write" /\ ~ ev.arg.null /\ ev.count >= 1
  /\ ev.address + ev.count <= s.g_sector_count

\* C26: in overlay mode a sector that has an entry keeps that entry over every
\* request; a write to sectors that all have an entry succeeds, stores the
\* payloads in those entries and takes no new slot, also when no slot is free.
C26_EntriesPersist ==
  [][ OverlayMode(sd)
      => /\ \A x \in Window :
              HasEntry(sd, x) => (overlay_find(sd', x) = overlay_find(sd, x))
         /\ ( /\ ValidWrite(sd, sd_last')
              /\ \A x \in Covered(sd_last'.address, sd_last'.count) :
                   HasEntry(sd, x) )
            => /\ sd_last'.res = "RES_OK"
               /\ sd'.overlay_used_count = sd.overlay_used_count
               /\ sd'.overlay_sector_id = sd.overlay_sector_id
    ]_vars

C28_BuffersReleased ==
  [][ /\ (fs_last'.op = "mount" /\ ~ fs_last'.fsobj_null) => (heap' = 0)
      /\ (fs_last'.op = "unlink" /\ fs_last'.res = "FR_OK")
         => /\ vfs'.g_node_pool[fs_resolve(vfs, fs_last'.path)].data.null
            /\ heap' = heap - (IF vfs.g_node_pool[fs_resolve(vfs, fs_last'.path)]
                                    .data.null
                               THEN 0 ELSE 1)
    ]_vars

\* Another handle is open on the file of handle h
SharedFile(fs, fils, h) ==
  /\ fils[h].dir_ptr \in LiveFiles(fs)
  /\ \E h2 \in Handles \ {h} : fils[h2].dir_ptr = fils[h].dir_ptr

\* What a successful write ev leaves in the file, old and new being its node
\* before and after: the written range holds the written bytes, the bytes
\* before and behind it are those earlier writes left, the size has grown to
\* the end of the range if that lies behind it
C29_Written(ev, old, new) ==
  /\ new.size = IF ev.at + RLen(ev.buff) > old.size
                THEN ev.at + RLen(ev.buff) ELSE old.size
  /\ ~ new.data.null
  /\ RSlice(new.data.bytes, ev.at, RLen(ev.buff)) = ev.buff
  /\ ~ old.data.null
     => /\ RSlice(new.data.bytes, 0, Min(ev.at, old.size))
             = RSlice(old.data.bytes, 0, Min(ev.at, old.size))
        /\ RSlice(new.data.bytes, ev.at + RLen(ev.buff),
                  old.size - (ev.at + RLen(ev.buff)))
             = RSlice(old.data.bytes, ev.at + RLen(ev.buff),
                      old.size - (ev.at + RLen(ev.buff)))

\* What a successful read ev returns through fp from node: the bytes of the
\* file from the cursor, as many as asked for or as the current size leaves
C29_ReadBack(ev, fp, node) ==
  /\ ev.br = IF fp.fptr >= node.size THEN 0 ELSE Min(ev.btr, node.size - fp.fptr)
  /\ ev.br > 0
     => ev.buf = IF node.data.null THEN Fill(ev.br, 0)
                 ELSE RSlice(node.data.bytes, fp.fptr, ev.br)

\* C29: with several handles open on one file, every successful write through
\* one of them puts its bytes at its offsets and leaves the rest of the file
\* as it was, and every successful read through one of them returns the
\* bytes the file holds up to its current size.
C29_LastWriterWins ==
  [][ /\ ( /\ fs_last'.op = "write" /\ fs_last'.res = "FR_OK"
           /\ SharedFile(vfs, fil, fs_last'.h) )
         => C29_Written(fs_last', vfs.g_node_pool[fil[fs_last'.h].dir_ptr],
                        vfs'.g_node_pool[fil[fs_last'.h].dir_ptr])
      /\ ( /\ fs_last'.op = "read" /\ fs_last'.res = "FR_OK"
           /\ SharedFile(vfs, fil, fs_last'.h) )
         => C29_ReadBack(fs_last', fil[fs_last'.h],
                         vfs.g_node_pool[fil[fs_last'.h].dir_ptr])
    ]_vars

\* The store of part_000 is set up and has no mutable copy
ImageOnly(s) == s.g_sd_ready = 1 /\ s.g_img_ram.null

\* C30: in the store without overlay, when the mutable copy could not be
\* allocated, a write with a buffer and a range inside the image returns
\* RES_OK and changes nothing, and every read that succeeds returns the
\* content of the embedded image for its range, whatever was written there.
C30_WritesDropped ==
  [][ ImageOnly(sd')
      => /\ ValidWrite(sd', sd_last')
            => /\ sd_last'.res = "RES_OK"
               /\ ImageOnly(sd) => (sd' = sd)
               /\ disk_bin' = disk_bin
         /\ (sd_last'.op = "read" /\ sd_last'.res = "RES_OK")
            => sd_last'.buf
                 = Buf([i \in 1 .. sd_last'.count |->
                          disk_bin[sd_last'.address + i - 1]])
    ]_vars

\* A read returned the image content of a sector that an earlier write,
\* answered with RES_OK, had given another payload
C30_Witness ==
  /\ ImageOnly(sd)
  /\ sd_last.op = "read" /\ sd_last.res = "RES_OK"
  /\ \E i \in 1 .. sd_last.count :
       /\ (sd_last.address + i - 1) \in DOMAIN shadow
       /\ shadow[sd_last.address + i - 1] # sd_last.buf.data[i]
       /\ sd_last.buf.data[i] = ImagePayload(sd_last.address + i - 1)

\* C31: in overlay mode the lookup finds a slot for a sector only if a write
\* to that very sector was accepted before; in particular not for sector
\* 65535 on a fresh overlay, and not for sector 65536 after a write to
\* sector 0.
C31_LookupByFullIndex ==
  OverlayMode(sd)
  => \A x \in Window : HasEntry(sd, x) => (x \in DOMAIN shadow)

\* C32: a file node that has a content buffer has one at least as long as
\* its size, so no read or write inside the size leaves the buffer.
C32_BufferCoversSize ==
  /\ fault # "heap_overrun"
  /\ \A n \in LiveFiles(vfs) :
       ~ vfs.g_node_pool[n].data.null
       => RLen(vfs.g_node_pool[n].data.bytes) >= vfs.g_node_pool[n].size

\* The clusters of file node n: its start cluster and as many as its size
\* takes
ClusterRange(fs, n) ==
  fs.g_node_pool[n].startCluster
    .. (fs.g_node_pool[n].startCluster + ClustersOf(fs.g_node_pool[n].size) - 1)

\* C33: the cluster ranges of two different live files have no cluster in
\* common, also after a write has made one of them larger.
C33_ClusterRangesDisjoint ==
  \A n, m \in LiveFiles(vfs) :
    (n # m) => (ClusterRange(vfs, n) \cap ClusterRange(vfs, m) = {})

\* The names of the children of d are pairwise different ignoring case
DistinctNames(fs, d) ==
  \A i, j \in 1 .. Len(Children(fs, d)) :
    (Fold(fs.g_node_pool[Children(fs, d)[i]].name)
       = Fold(fs.g_node_pool[Children(fs, d)[j]].name)) => (i = j)

\* C34: in every state the children of every live directory have pairwise
\* different names under case-insensitive comparison.
C34_ChildNamesDistinct ==
  \A d \in LiveNodes(vfs) :
    IsDir(vfs.g_node_pool[d].attr) => DistinctNames(vfs, d)

\* C35: while mounted the current directory is a live directory node that
\* is reached from the root, and a chdir that fails leaves it as it was.
C35_CwdIsLiveDirectory ==
  [][ /\ (vfs'.g_mounted = 1)
         => /\ vfs'.g_cwd \in LiveNodes(vfs')
            /\ IsDir(vfs'.g_node_pool[vfs'.g_cwd].attr)
            /\ ReachesRoot(vfs', vfs'.g_cwd, FS_MAX_NODES)
      /\ (fs_last'.op = "chdir" /\ fs_last'.res # "FR_OK")
         => (vfs'.g_cwd = vfs.g_cwd)
    ]_vars

\* The pool slot FIL object fp points at holds a live node that is not the
\* file fp was opened on: a node keeps its start cluster from creation to
\* unlink, f_open copies it into the FIL object, and the node created in a
\* reused slot gets another one
OnAnotherNode(fs, fp) ==
  /\ fp.dir_ptr \in LiveNodes(fs)
  /\ fp.sclust # fs.g_node_pool[fp.dir_ptr].startCluster

\* C36: a read or write through a handle whose file was unlinked, and whose
\* pool slot now holds a node created later, returns no byte of that node and
\* leaves its content and size as they are.
C36_HandleKeepsItsFile ==
  [][ ( /\ fs_last'.op \in {"read", "write"}
        /\ OnAnotherNode(vfs, fil[fs_last'.h]) )
      => /\ vfs'.g_node_pool[fil[fs_last'.h].dir_ptr]
              = vfs.g_node_pool[fil[fs_last'.h].dir_ptr]
         /\ (fs_last'.op = "read" /\ fs_last'.res = "FR_OK") => (fs_last'.br = 0)
    ]_vars

\* Node n is a live node standing in the child list of the live directory d
LiveChildOf(fs, d, n) ==
  /\ d \in LiveNodes(fs) /\ n \in LiveNodes(fs)
  /\ \E i \in 1 .. Len(Children(fs, d)) : Children(fs, d)[i] = n

\* C37: an f_readdir that yields an entry through an open DIR object yields
\* a node that is at that moment a live child of the directory opened last,
\* whatever unlink, rename, create or f_opendir calls came in between; it
\* yields no freed node, whose empty name reads as the end of the directory.
C37_YieldsLiveChildren ==
  [][ ( /\ fs_last'.op = "readdir" /\ fs_last'.res = "FR_OK"
        /\ ~ fs_last'.fno_null
        /\ dirs[fs_last'.d].dir = DIR_OPEN
        /\ vfs.g_iter_next # NULL )
      => /\ LiveChildOf(vfs, vfs.g_iter_dir, vfs.g_iter_next)
         /\ fs_last'.fname # ""
    ]_vars

\* The calls of the file API that work on the mounted filesystem
C38_Calls ==
  { "open", "read", "write", "lseek", "opendir", "readdir", "unlink", "rename",
    "mkdir", "chdir" }

\* C38: while the filesystem is not mounted, every call of the file API
\* returns a failure code and leaves the node pool, the root and the current
\* directory as they are.
C38_UnmountedCallsFail ==
  [][ (vfs.g_mounted = 0 /\ fs_last'.op \in C38_Calls)
      => /\ fs_last'.res # "FR_OK"
         /\ vfs'.g_node_pool = vfs.g_node_pool
         /\ vfs'.g_root = vfs.g_root
         /\ vfs'.g_cwd = vfs.g_cwd
    ]_vars

====
